---- MODULE Spec2Model ----
(***************************************************************************)
(* State-machine model of PyTado's HTTP core (src/PyTado/http.py): the     *)
(* Http client with its OAuth2 device-authorization flow, the token        *)
(* refresh done at the top of every request(), the URL/payload builder and *)
(* the bounded-retry dispatcher.                                           *)
(*                                                                         *)
(* One Http instance is modelled.  Every network exchange is one action;   *)
(* the answer of the remote side (status, body, connection error) is       *)
(* chosen with \E.  The clock `now` advances when an operation starts (the  *)
(* time since the previous one), by time.sleep(), and between two polls of *)
(* the device flow; an HTTP exchange itself takes no time.                 *)
(***************************************************************************)
EXTENDS Integers, Sequences, FiniteSets, TLC

(* ------------------------------------------------------------------ *)
(* Bounds of the model                                                 *)
(* ------------------------------------------------------------------ *)
MaxTime == 60           \* the clock stops advancing past this instant

(* ------------------------------------------------------------------ *)
(* Program constants                                                   *)
(* ------------------------------------------------------------------ *)
DEFAULT_RETRIES == 5    \* _DEFAULT_RETRIES
DEFAULT_TIMEOUT == 10   \* _DEFAULT_TIMEOUT
SkewSeconds == 30       \* timedelta(seconds=30) in _set_oauth_header
InitialRefreshDelay == 600   \* timedelta(minutes=10) in __init__

None == "None"
NoTime == -1            \* _expires_at is None
NoId == -1              \* _id is None

NOT_STARTED == "NOT_STARTED"
PENDING == "PENDING"
COMPLETED == "COMPLETED"
DeviceActivationStatus == {NOT_STARTED, PENDING, COMPLETED}

\* rank of a status in the declaration order of the enum
StatusRank(s) == CASE s = NOT_STARTED -> 0 [] s = PENDING -> 1 [] s = COMPLETED -> 2

(* ------------------------------------------------------------------ *)
(* Values the environment can produce                                  *)
(* ------------------------------------------------------------------ *)
Elapsed == {0, 20, 40}                   \* time between two operations
\* token responses: access_token, refresh_token
TokenPairs == {<<"acc1", "ref1">>, <<"acc2", "ref2">>}
SavedTokens == {"saved1"}                \* saved_refresh_token argument
FileTokens == {"file1"}                  \* refresh token stored in the token file
TokenExpiresIn == {20, 50}               \* expires_in of a token response
CodeExpiresIn == {20, 40}                \* expires_in of the device code
Intervals == {20}                        \* poll interval of the device flow
UserCodes == {"7BQ5ZQ"}
HomeIds == {1234, 5678}

\* the token file: missing, unreadable as JSON, or a JSON document
FileAbsent == [kind |-> "absent", data |-> [k \in {} |-> "None"]]
FileCorrupt == [kind |-> "corrupt", data |-> [k \in {} |-> "None"]]
FileJson(data) == [kind |-> "json", data |-> data]
\* variant: the document is written under another key
JsonDumpToken_OtherKey(token) == FileJson([token |-> token])

\* json_dump({"refresh_token": token}, f)
JsonDumpToken(token) == FileJson([refresh_token |-> token])
\* data.get("refresh_token")
GetRefreshToken(data) == IF "refresh_token" \in DOMAIN data THEN data.refresh_token ELSE None
InitialFiles == {FileAbsent, FileCorrupt, FileJson([k \in {} |-> "None"])}
                  \cup {JsonDumpToken(t) : t \in FileTokens}

(* Endpoint / Domain / Action / Mode enums *)
Endpoint(e) ==
  CASE e = "MY_API" -> "https://my.tado.com/api/v2/"
    [] e = "HOPS_API" -> "https://hops.tado.com/"
    [] e = "MOBILE" -> "https://my.tado.com/mobile/1.9/"
    [] e = "EIQ" -> "https://energy-insights.tado.com/api/"
    [] e = "TARIFF" -> "https://tariff-experience.tado.com/api/"
    [] e = "GENIE" -> "https://genie.tado.com/api/v2/"
    [] e = "MINDER" -> "https://minder.tado.com/v1/"

Domain(d) ==
  CASE d = "HOME" -> "homes"
    [] d = "DEVICES" -> "devices"
    [] d = "ME" -> "me"
    [] d = "HOME_BY_BRIDGE" -> "homeByBridge"

Action(a) ==
  CASE a = "GET" -> "GET"
    [] a = "SET" -> "POST"
    [] a = "RESET" -> "DELETE"
    [] a = "CHANGE" -> "PUT"

\* TadoRequest(...): the data container with the defaults of its constructor
TadoRequest(endpoint, command, action, payload, domain, device, mode, params) ==
  [endpoint |-> endpoint, command |-> command, action |-> Action(action),
   payload |-> payload, domain |-> domain, device |-> device, mode |-> mode,
   params |-> params]

\* TadoXRequest(...): the subclass keeps the verb in _action and exposes action
\* as a property (lines 96-132)
TadoXRequest(endpoint, command, action, payload, domain, device, mode, params) ==
  [endpoint |-> endpoint, command |-> command, _action |-> Action(action),
   payload |-> payload, domain |-> domain, device |-> device, mode |-> mode,
   params |-> params]

IsTadoX(r) == "_action" \in DOMAIN r

\* variant: the new-generation request has no override of its own
RequestAction_NoOverride(r) == IF IsTadoX(r) THEN r["_action"] ELSE r.action

\* request.action: the attribute of TadoRequest, the property of TadoXRequest
\* (lines 122-127)
RequestAction(r) ==
  IF IsTadoX(r)
    THEN IF r["_action"] = Action("CHANGE") THEN "PATCH" ELSE r["_action"]
    ELSE r.action

\* request.action = value: plain assignment, or the setter of lines 129-132
SetAction(r, action) ==
  IF IsTadoX(r) THEN [r EXCEPT !["_action"] = Action(action)]
  ELSE [r EXCEPT !.action = Action(action)]

\* params: None, or a dict given as the sequence of its items
NoParams == [given |-> FALSE, items |-> <<>>]
Params(items) == [given |-> TRUE, items |-> items]

\* the two requests _device_ready issues
GetIdRequest == TadoRequest("MY_API", None, "GET", None, "ME", None, "OBJECT", NoParams)
XLineRequest == TadoRequest("MY_API", "", "GET", None, "HOME", None, "OBJECT", NoParams)

\* requests a caller hands to request()
UserRequests ==
  { TadoRequest("MY_API", None, "GET", None, "ME", None, "OBJECT", NoParams),
    TadoRequest("MY_API", "zones", "SET", "payload", "HOME", None, "OBJECT", NoParams) }

\* quote_plus, on the texts of the model
QuotePlus(text) == IF text = "a b" THEN "a+b" ELSE text

\* urllib.parse.urlencode of the items of a dict
RECURSIVE Urlencode(_)
Urlencode(items) ==
  IF items = <<>> THEN ""
  ELSE QuotePlus(Head(items)[1]) \o "=" \o QuotePlus(Head(items)[2])
       \o (IF Tail(items) = <<>> THEN "" ELSE "&" \o Urlencode(Tail(items)))

\* "%d" % n and str(n) for the numbers of the model
FmtD(n) == CASE n = 1234 -> "1234" [] n = 5678 -> "5678" [] n = 5 -> "5"

(* Response bodies of the resource endpoints, as texts, and json.loads *)
EmptyObject == [k \in {} |-> None]
BodyTexts == {"", "{}", "{homes:[{id:1234}]}", "{homes:[{id:5678}]}",
              "{generation:LINE_X}", "{generation:PRE_LINE_X}", "{generation:LINE_X2}",
              "<html>"}
IsJson(text) == text \notin {"", "<html>"}
JsonLoads(text) ==
  CASE text = "{}" -> EmptyObject
    [] text = "{homes:[{id:1234}]}" -> [homes |-> <<[id |-> 1234]>>]
    [] text = "{homes:[{id:5678}]}" -> [homes |-> <<[id |-> 5678]>>]
    [] text = "{generation:LINE_X}" -> [generation |-> "LINE_X"]
    [] text = "{generation:PRE_LINE_X}" -> [generation |-> "PRE_LINE_X"]
    [] text = "{generation:LINE_X2}" -> [generation |-> "LINE_X2"]
    [] text = "{error:authorization_pending}" -> [error |-> "authorization_pending"]
    [] text = "{error:invalid_grant}" -> [error |-> "invalid_grant"]

(* Response bodies of the token endpoint, as texts.  TokenText stands for a
   token document {access_token, expires_in, refresh_token}; its values are
   drawn from TokenPairs and TokenExpiresIn. *)
TokenText == "{access_token,expires_in,refresh_token}"
PendingText == "{error:authorization_pending}"
InvalidGrantText == "{error:invalid_grant}"
ErrorTexts == {"", "<html>", InvalidGrantText}
PollTexts == ErrorTexts \cup {"{}", PendingText, TokenText}
PollStatuses == {200, 400, 503}
RefreshTexts == ErrorTexts \cup {"{}", TokenText}
AuthorizeTexts == ErrorTexts \cup {"{}"}
\* how the last token-side exchange of an operation ended: not at all yet, with
\* requests.exceptions.ConnectionError, or with a status code
NoResponse == 0
ConnectionFailed == -1
\* the members of a JSON object
JsonKeys(text) ==
  IF text = TokenText THEN {"access_token", "expires_in", "refresh_token"}
  ELSE DOMAIN JsonLoads(text)

\* _log_response, lines 261-264: the response hook of the session parses every
\* non-empty body, so a body that is not JSON raises out of the HTTP call
HookRaises(text) == text # "" /\ ~IsJson(text)

(* Header maps: functions from header names to values (tuples of strings) *)
SetHeader(h, k, v) == [x \in (DOMAIN h) \cup {k} |-> IF x = k THEN v ELSE h[x]]
Bearer(access_token) == <<"Bearer ", access_token>>
RefererValue == <<"https://app.tado.com/">>

VARIABLES
  \* ---- fields of the Http instance
  refresh_at,               \* _refresh_at
  headers,                  \* _headers
  user_code,                \* _user_code
  device_verification_url,  \* _device_verification_url
  device_activation_status, \* _device_activation_status
  expires_at,               \* _expires_at
  id,                       \* _id
  token_refresh,            \* _token_refresh
  x_api,                    \* _x_api
  token_file_path,          \* _token_file_path (TRUE: a path is configured)
  device_flow_data,         \* _device_flow_data (<<>>: attribute never set)
  \* ---- the world
  now,                      \* the clock, in seconds
  file,                     \* content of the token file
  \* ---- control
  op,                       \* the operation in progress, or the last one
  pc,                       \* position inside it ("none": it has ended)
  ready,                    \* which follow-up of _device_ready is running
  force,                    \* force_refresh of the _refresh_token in progress
  arg_token,                \* saved_refresh_token of the constructor
  req,                      \* the TadoRequest of the request() in progress
  prepped,                  \* the prepared request
  retries,                  \* local variable retries of request()
  outcome,                  \* how the last operation ended
  result,                   \* value returned by the last request(), or the wrapped
                            \* exception object (TadoException(e) from e) it ended with
  \* ---- history, kept for the properties
  callLog,                  \* steps of the current request() call
  recreated,                \* sessions created during the current request()
  checkedAt,                \* instant of the freshness check of the call
  wire,                     \* headers of the resource requests sent in the call
  received,                 \* body text of the response the call got
  pollLog,                  \* sleeps and polls of the current device_activation()
  latest,                   \* last token response: access token, instant, expires_in
  calls,                    \* endpoint calls of the operation `op`
  \* ---- callers on other threads that share the instance
  threads,                  \* per thread: position in request() and its locals
  writes                    \* history: the Authorization writes, in order

client == <<refresh_at, headers, user_code, device_verification_url,
            device_activation_status, expires_at, id, token_refresh, x_api,
            token_file_path, device_flow_data>>
world == <<now, file>>
control == <<op, pc, ready, force, arg_token, req, prepped, retries, outcome, result>>
history == <<callLog, recreated, checkedAt, wire, received, pollLog, latest, calls>>
raceVars == <<threads, writes>>
vars == <<client, world, control, history, raceVars>>

NoLatest == [access |-> None, refresh |-> None, at |-> NoTime, expires_in |-> 0]
\* calls: device-authorization calls, forced refreshes and the refresh token the
\* forced refresh sent, whether the token file was read and the token read from
\* it, and the activation status when the operation began
\* posts counts the refresh POSTs, answer is the end of the last exchange with
\* the token or device-authorization endpoint; written is the refresh token an
\* earlier instance had acquired and left in the token file (None: it left none)
NoCalls == [authorize |-> 0, forced |-> 0, forced_token |-> None, file_read |-> FALSE,
            loaded |-> None, status0 |-> NOT_STARTED, posts |-> 0, answer |-> NoResponse,
            written |-> None]
NoPrepped == [method |-> None, url |-> "", headers |-> EmptyObject, data |-> <<>>]

\* callers of request() on threads of their own; a thread is at "idle" outside
\* request(); sent is the refresh token its POST carried, access, refresh and
\* expires_in are the locals of _set_oauth_header, bearer is the Authorization it sent
Threads == {"T1", "T2"}
IdleThread == [pc |-> "idle", n |-> 0, stale |-> FALSE, sent |-> None, access |-> None,
               refresh |-> None, expires_in |-> 0, bearer |-> <<>>]
NoThreads == [t \in Threads |-> IdleThread]

(* ------------------------------------------------------------------ *)
(* Http.__init__, lines 172-190: the state before the bootstrap         *)
(* ------------------------------------------------------------------ *)
Init ==
  /\ now = 0
  /\ refresh_at = now + InitialRefreshDelay
  /\ headers = [k \in {"Referer"} |-> RefererValue]
  /\ user_code = None
  /\ device_verification_url = None
  /\ device_activation_status = NOT_STARTED
  /\ expires_at = NoTime
  /\ id = NoId
  /\ token_refresh = None
  /\ x_api = None
  /\ token_file_path \in BOOLEAN
  /\ device_flow_data = <<>>
  /\ file \in InitialFiles
  /\ (~token_file_path => file = FileAbsent)
  /\ arg_token \in {None} \cup SavedTokens
  /\ op = "ctor"
  /\ pc = "bootstrap"
  /\ ready = None
  /\ force = FALSE
  /\ req = GetIdRequest
  /\ prepped = NoPrepped
  /\ retries = 0
  /\ outcome = None
  /\ result = EmptyObject
  /\ callLog = <<>>
  /\ recreated = 0
  /\ checkedAt = NoTime
  /\ wire = EmptyObject
  /\ received = None
  /\ pollLog = <<>>
  /\ latest = NoLatest
  /\ calls = NoCalls
  /\ threads = NoThreads
  /\ writes = <<>>


(* ------------------------------------------------------------------ *)
(* Pure helpers of the code                                            *)
(* ------------------------------------------------------------------ *)

\* variant: the 30 second margin is not subtracted
RefreshAt_NoSkew(t, expires_in) == t + expires_in

\* _set_oauth_header, lines 349-353: now + expires_in - 30 seconds
RefreshAt(t, expires_in) == (t + expires_in) - SkewSeconds

\* variant: the comparison is the wrong way round
IsFresh_Reversed(refreshAt, t, forced) == refreshAt <= t /\ ~forced

\* variant: the early return is taken whatever the clock says
IsFresh_Always(refreshAt, t, forced) == ~forced

\* _refresh_token, line 399: the token is still good and nothing forces a refresh
IsFresh(refreshAt, t, forced) == refreshAt >= t /\ ~forced

\* variant: the last retry is never made
RetryAllowed_OffByOne(r) == r > 1

\* request, line 296: a failed send is retried while retries remain
RetryAllowed(r) == r > 0

\* variant: the old session is kept
Recreate_Reuse(n) == n

\* lines 298-299 and 408-409: self._session.close(), then a new session from
\* _create_session; n counts the sessions created so far in the call
Recreate(n) == n + 1

\* variant: only the POST is repeated, without the sleep
AfterPending_NoSleep == "poll"

\* device_activation, lines 562-564: a poll that is not yet authorised runs
\* _check_device_activation again from its top
AfterPending == "check_device_activation"

\* variant: the wrong member of the enum
ReadyStatus_NotStarted == NOT_STARTED

\* _device_ready, line 574
ReadyStatus == COMPLETED

\* variant: a home that is not LINE_X leaves the flag absent
PyBool_NoneForFalse(b) == IF b THEN "True" ELSE None

\* bool as Python prints it
PyBool(b) == IF b THEN "True" ELSE "False"

\* variant: the domain is looked at before the endpoint
ConfigureUrl_DomainFirst(r, home_id) ==
  LET url ==
        IF r.domain = "DEVICES" \/ r.domain = "HOME_BY_BRIDGE"
          THEN Endpoint(r.endpoint) \o Domain(r.domain) \o "/" \o r.device \o "/" \o r.command
        ELSE IF r.domain = "ME"
          THEN Endpoint(r.endpoint) \o Domain(r.domain)
        ELSE IF r.endpoint = "MOBILE"
          THEN Endpoint(r.endpoint) \o r.command
        ELSE Endpoint(r.endpoint) \o Domain(r.domain) \o "/" \o FmtD(home_id) \o "/" \o r.command
  IN IF r.params.given THEN url \o "?" \o Urlencode(r.params.items) ELSE url

\* _configure_url, lines 314-328; an f-string prints None as "None"
ConfigureUrl(r, home_id) ==
  LET url ==
        IF r.endpoint = "MOBILE"
          THEN Endpoint(r.endpoint) \o r.command
        ELSE IF r.domain = "DEVICES" \/ r.domain = "HOME_BY_BRIDGE"
          THEN Endpoint(r.endpoint) \o Domain(r.domain) \o "/" \o r.device \o "/" \o r.command
        ELSE IF r.domain = "ME"
          THEN Endpoint(r.endpoint) \o Domain(r.domain)
        ELSE Endpoint(r.endpoint) \o Domain(r.domain) \o "/" \o FmtD(home_id) \o "/" \o r.command
  IN IF r.params.given THEN url \o "?" \o Urlencode(r.params.items) ELSE url

\* f"{self._id:d}" raises TypeError while _id is None
ConfigureUrlRaises(r, home_id) ==
  /\ r.endpoint # "MOBILE"
  /\ r.domain \notin {"DEVICES", "HOME_BY_BRIDGE", "ME"}
  /\ home_id = NoId

\* variant: the payload mode is not looked at
ConfigurePayloadHeaders_AlwaysJson(h, r) ==
  IF r.payload = None THEN h
  ELSE SetHeader(SetHeader(h, "Content-Type", <<"application/json;charset=UTF-8">>),
                 "Mime-Type", <<"application/json;charset=UTF-8">>)

\* _configure_payload, lines 330-339: the header map it leaves behind
ConfigurePayloadHeaders(h, r) ==
  IF r.payload = None THEN h
  ELSE SetHeader(
         SetHeader(h, "Content-Type",
                   IF r.mode = "PLAIN" THEN <<"text/plain;charset=UTF-8">>
                   ELSE <<"application/json;charset=UTF-8">>),
         "Mime-Type", <<"application/json;charset=UTF-8">>)

\* variant: request() hands a copy of the map to _configure_payload
SharedHeaders_Copy(h, r) == h

\* line 278, headers = self._headers: _configure_payload writes into the map
\* of the instance, which is left as the call made it
SharedHeaders(h, r) == ConfigurePayloadHeaders(h, r)

\* _configure_payload: the body
ConfigurePayloadData(r) ==
  IF r.payload = None THEN <<>> ELSE <<"json.dumps", r.payload>>

\* variant: the value of the field is not looked at
IsLineX_Present(home_) == "generation" \in DOMAIN home_

\* _check_x_line_generation, line 594
IsLineX(home_) == "generation" \in DOMAIN home_ /\ home_["generation"] = "LINE_X"

(* ------------------------------------------------------------------ *)
(* The timeout argument of each HTTP call: <<seconds>>, or << >> when   *)
(* the call passes none and requests waits without limit               *)
(* ------------------------------------------------------------------ *)
\* _login_device_flow, lines 479-484: timeout=_DEFAULT_TIMEOUT
AuthorizeTimeout == <<DEFAULT_TIMEOUT>>
\* _refresh_token, lines 412-417: timeout=_DEFAULT_TIMEOUT
RefreshTimeout == <<DEFAULT_TIMEOUT>>
\* _check_device_activation, lines 530-538: no timeout argument
PollTimeout == <<>>
\* request, line 290, self._session.send(prepped): no timeout argument
SendTimeout == <<>>

(* ------------------------------------------------------------------ *)
(* Control helpers                                                     *)
(* ------------------------------------------------------------------ *)

\* an exception ends the operation; one raised in __init__ leaves no instance
Raise(e) ==
  /\ outcome' = e
  /\ pc' = IF op = "ctor" THEN "dead" ELSE "none"

\* variant: the exception that was caught leaves the operation unwrapped
TadoExceptionFrom_Unwrapped(e) == [kind |-> e, args |-> <<>>, cause |-> None]

\* lines 307 and 464, raise TadoException(e) from e: the exception object has
\* the caught exception as its only argument and as its cause
TadoExceptionFrom(e) == [kind |-> "TadoException", args |-> <<e>>, cause |-> e]

\* the operation returns normally to the caller of the instance
ReturnToCaller ==
  /\ outcome' = "ok"
  /\ pc' = "none"

\* entry of request(): nothing of the call has run yet
BeginRequest(r) ==
  /\ req' = r
  /\ pc' = "request"
  /\ prepped' = NoPrepped
  /\ retries' = 0
  /\ callLog' = <<>>
  /\ recreated' = 0
  /\ checkedAt' = NoTime
  /\ wire' = EmptyObject
  /\ received' = None

\* the locals and the history of an earlier request() are gone
ClearCall(r) ==
  /\ req' = r
  /\ prepped' = NoPrepped
  /\ retries' = 0
  /\ callLog' = <<>>
  /\ recreated' = 0
  /\ checkedAt' = NoTime
  /\ wire' = EmptyObject
  /\ received' = None

\* a caller starts an operation on the idle instance
StartOperation(name, r) ==
  /\ pc = "none"
  /\ op' = name
  /\ \E d \in Elapsed : now + d <= MaxTime /\ now' = now + d
  /\ ready' = None /\ pollLog' = <<>>
  /\ calls' = [NoCalls EXCEPT !.status0 = device_activation_status]
  /\ result' = EmptyObject
  /\ arg_token' = None
  /\ ClearCall(r)
  /\ UNCHANGED <<raceVars, client, file, force, latest>>

callVars == <<req, prepped, retries, callLog, recreated, checkedAt, wire, received>>
flowVars == <<user_code, device_verification_url, expires_at, device_flow_data>>
homeVars == <<id, x_api, device_activation_status>>
tokenVars == <<refresh_at, headers, token_refresh, latest, file>>

\* variant: the refresh token of the answer is dropped, the old one is kept
SetOauthHeader_KeepRefresh(access_token, expires_in, refresh_token) ==
  /\ token_refresh' = token_refresh
  /\ refresh_at' = RefreshAt(now, expires_in)
  /\ headers' = SetHeader(headers, "Authorization", Bearer(access_token))
  /\ latest' = [access |-> access_token, refresh |-> refresh_token, at |-> now,
                expires_in |-> expires_in]

\* _set_oauth_header, lines 344-355 (before _save_token)
SetOauthHeader(access_token, expires_in, refresh_token) ==
  /\ token_refresh' = refresh_token
  /\ refresh_at' = RefreshAt(now, expires_in)
  /\ headers' = SetHeader(headers, "Authorization", Bearer(access_token))
  /\ latest' = [access |-> access_token, refresh |-> refresh_token, at |-> now,
                expires_in |-> expires_in]

\* variant: the early return for a missing path is not there
SaveToken_NoPathCheck(refresh_token) == file' = JsonDumpToken(refresh_token)

\* _save_token, lines 445-464, when it returns normally
SaveToken(refresh_token) ==
  file' = IF token_file_path /\ refresh_token # None
            THEN JsonDumpToken(refresh_token) ELSE file

\* _save_token when the write fails: the file is untouched or left truncated
SaveTokenFails(refresh_token) ==
  /\ token_file_path /\ refresh_token # None
  /\ file' \in {file, FileCorrupt}

(* ------------------------------------------------------------------ *)
(* Http.__init__, line 192: saved_refresh_token or self._load_token()   *)
(* ------------------------------------------------------------------ *)
Bootstrap ==
  /\ op = "ctor" /\ pc = "bootstrap"
  /\ IF arg_token # None
       THEN \* the explicit token wins, _load_token is not called
            /\ pc' = "refresh_token" /\ force' = TRUE
            /\ UNCHANGED <<token_refresh, calls, outcome>>
       ELSE IF ~token_file_path \/ file.kind = "absent"
       THEN \* _load_token returns False
            /\ pc' = "login_device_flow"
            /\ UNCHANGED <<token_refresh, calls, outcome, force>>
       ELSE IF file.kind = "corrupt"
       THEN \* json.JSONDecodeError is wrapped
            /\ Raise("TadoException")
            /\ calls' = [calls EXCEPT !.file_read = TRUE]
            /\ UNCHANGED <<token_refresh, force>>
       ELSE /\ token_refresh' = GetRefreshToken(file.data)
            /\ calls' = [calls EXCEPT !.file_read = TRUE,
                                      !.loaded = GetRefreshToken(file.data)]
            /\ pc' = "refresh_token" /\ force' = TRUE
            /\ UNCHANGED outcome
  /\ UNCHANGED <<raceVars, refresh_at, headers, flowVars, homeVars, token_file_path, world,
                 op, ready, arg_token, result, callVars, pollLog, latest>>

(* ------------------------------------------------------------------ *)
(* _refresh_token, lines 402-443: the refresh that is actually done     *)
(* ------------------------------------------------------------------ *)
\* variant: the refresh_token argument is ignored
RefreshTokenSent_Stored == token_refresh

\* refresh_token or self._token_refresh (line 406)
RefreshTokenSent == IF force /\ arg_token # None THEN arg_token ELSE token_refresh

\* variant: a forced refresh reports a connection error as a failed refresh
ConnectionErrorRaises_UnlessForced(forced) == ~forced

\* lines 424-426, 490-491 and 539-540: a connection error of a token-side call
\* is wrapped in TadoException and raised, whatever force_refresh says
ConnectionErrorRaises(forced) == TRUE

\* bookkeeping common to every outcome of the POST
RefreshPosted(answer) ==
  /\ calls' = IF force
                THEN [calls EXCEPT !.forced = @ + 1, !.forced_token = RefreshTokenSent,
                                   !.posts = @ + 1, !.answer = answer]
                ELSE [calls EXCEPT !.posts = @ + 1, !.answer = answer]
  /\ force' = FALSE

\* how lines 428-443 end for a response: the value returned or the exception
RefreshClass(status, text, forced) ==
  IF HookRaises(text) THEN "JSONDecodeError"
  ELSE IF status # 200
    THEN IF forced THEN "False" ELSE "TadoWrongCredentialsException"
  ELSE IF text = "" THEN "JSONDecodeError"               \* response.json(), line 441
  ELSE IF "access_token" \notin JsonKeys(text) THEN "KeyError"
  ELSE "True"

\* the POST fails with requests.exceptions.ConnectionError
RefreshConnectionError ==
  /\ pc = "refresh_token"
  /\ RefreshPosted(ConnectionFailed)
  /\ recreated' = Recreate(recreated)
  /\ callLog' = IF force THEN callLog ELSE Append(callLog, "refresh_raise")
  /\ IF ConnectionErrorRaises(force) THEN Raise("TadoException") ELSE ReturnToCaller
  /\ UNCHANGED <<raceVars, tokenVars, flowVars, homeVars, token_file_path, now, op, ready,
                 arg_token, req, prepped, retries, result, checkedAt, wire, received, pollLog>>

\* the token endpoint answers with a status other than 200
RefreshRejected ==
  /\ pc = "refresh_token"
  /\ recreated' = Recreate(recreated)
  /\ \E status \in PollStatuses, text \in RefreshTexts :
       /\ RefreshClass(status, text, force) \in {"False", "TadoWrongCredentialsException"}
       /\ RefreshPosted(status)
       /\ IF RefreshClass(status, text, force) = "False"
            THEN \* return False: __init__ does nothing more (lines 193-194)
                 /\ ReturnToCaller
                 /\ UNCHANGED callLog
            ELSE /\ Raise("TadoWrongCredentialsException")
                 /\ callLog' = Append(callLog, "refresh_raise")
  /\ UNCHANGED <<raceVars, tokenVars, flowVars, homeVars, token_file_path, now, op, ready,
                 arg_token, req, prepped, retries, result, checkedAt, wire, received, pollLog>>

\* the answer cannot be read: the body is not JSON (the response hook raises)
\* or a 200 answer carries no token document
RefreshUndecodable ==
  /\ pc = "refresh_token"
  /\ recreated' = Recreate(recreated)
  /\ \E status \in PollStatuses, text \in RefreshTexts :
       /\ RefreshClass(status, text, force) \in {"JSONDecodeError", "KeyError"}
       /\ RefreshPosted(status)
       /\ Raise(RefreshClass(status, text, force))
  /\ callLog' = IF force THEN callLog ELSE Append(callLog, "refresh_raise")
  /\ UNCHANGED <<raceVars, tokenVars, flowVars, homeVars, token_file_path, now, op, ready,
                 arg_token, req, prepped, retries, result, checkedAt, wire, received, pollLog>>

\* the token endpoint answers 200
RefreshAccepted ==
  /\ pc = "refresh_token"
  /\ \E status \in PollStatuses, text \in RefreshTexts :
       /\ RefreshClass(status, text, force) = "True"
       /\ RefreshPosted(status)
  /\ recreated' = Recreate(recreated)
  /\ \E pair \in TokenPairs, expires_in \in TokenExpiresIn :
     LET access_token == pair[1]
         refresh_token == pair[2]
     IN
       /\ SetOauthHeader(access_token, expires_in, refresh_token)
       /\ \/ /\ SaveToken(refresh_token)
             /\ IF force
                  THEN pc' = "device_ready" /\ UNCHANGED <<callLog, outcome>>
                  ELSE /\ pc' = "configure"
                       /\ callLog' = Append(callLog, "refresh_ok")
                       /\ UNCHANGED outcome
             /\ UNCHANGED result
          \/ /\ SaveTokenFails(refresh_token)
             /\ result' = TadoExceptionFrom("OSError")
             /\ Raise(result'.kind)
             /\ callLog' = IF force THEN callLog ELSE Append(callLog, "refresh_raise")
  /\ UNCHANGED <<raceVars, flowVars, homeVars, token_file_path, now, op, ready,
                 arg_token, req, prepped, retries, checkedAt, wire, received, pollLog>>

(* ------------------------------------------------------------------ *)
(* _login_device_flow, lines 466-516                                    *)
(* ------------------------------------------------------------------ *)
\* variant: only a completed activation blocks a new start
AlreadyStarted_OnlyCompleted(status) == status = COMPLETED

\* line 469: the flow can only be started once
AlreadyStarted(status) == status # NOT_STARTED

LoginAlreadyStarted ==
  /\ pc = "login_device_flow"
  /\ AlreadyStarted(device_activation_status)
  /\ Raise("TadoException")
  /\ UNCHANGED <<raceVars, client, world, op, ready, force, arg_token, req, prepped, retries,
                 result, history>>

\* how lines 493-501 end for a response: "started", or the exception raised
AuthorizeClass(status, text) ==
  IF HookRaises(text) THEN "JSONDecodeError"
  ELSE IF status # 200 THEN "TadoException"
  ELSE IF text = "" THEN "JSONDecodeError"               \* response.json(), line 498
  ELSE "KeyError"                                        \* no user_code, line 501

\* lines 490-491: the device-authorization POST fails with a connection error
LoginConnectionError ==
  /\ pc = "login_device_flow"
  /\ ~AlreadyStarted(device_activation_status)
  /\ calls' = [calls EXCEPT !.authorize = @ + 1, !.answer = ConnectionFailed]
  /\ IF ConnectionErrorRaises(FALSE) THEN Raise("TadoException") ELSE ReturnToCaller
  /\ UNCHANGED <<raceVars, client, world, op, ready, force, arg_token, req, prepped, retries,
                 result, callLog, recreated, checkedAt, wire, received, pollLog, latest>>

\* the device-authorization endpoint answers, but not with a 200 that carries
\* the device-flow document
LoginFailed ==
  /\ pc = "login_device_flow"
  /\ ~AlreadyStarted(device_activation_status)
  /\ \E status \in PollStatuses, text \in AuthorizeTexts :
       /\ calls' = [calls EXCEPT !.authorize = @ + 1, !.answer = status]
       /\ Raise(AuthorizeClass(status, text))
       \* line 498 has stored the document before line 501 misses user_code
       /\ device_flow_data' = IF AuthorizeClass(status, text) = "KeyError"
                                THEN <<EmptyObject>> ELSE device_flow_data
  /\ UNCHANGED <<raceVars, refresh_at, headers, user_code, device_verification_url,
                 device_activation_status, expires_at, id, token_refresh, x_api,
                 token_file_path, world, op, ready, force, arg_token, req, prepped, retries,
                 result, callLog, recreated, checkedAt, wire, received, pollLog, latest>>

LoginDeviceFlow ==
  /\ pc = "login_device_flow"
  /\ ~AlreadyStarted(device_activation_status)
  /\ calls' = [calls EXCEPT !.authorize = @ + 1, !.answer = 200]
  /\ \E uc \in UserCodes, e \in CodeExpiresIn, i \in Intervals :
       LET data == [device_code |-> "XXX_code_XXX", expires_in |-> e, interval |-> i,
                    user_code |-> uc,
                    verification_uri |-> "https://login.tado.com/oauth2/device"]
       IN /\ device_flow_data' = <<data>>
          /\ user_code' = data.user_code
          \* lines 501-504: the query is urlencode({"user_code": ...})
          /\ device_verification_url' =
               data.verification_uri \o "?" \o Urlencode(<< <<"user_code", data.user_code>> >>)
          /\ expires_at' = now + data.expires_in
  \* line 196: only __init__ stores the returned status
  /\ device_activation_status' = IF op = "ctor" THEN PENDING ELSE device_activation_status
  /\ ReturnToCaller
  /\ UNCHANGED <<raceVars, refresh_at, headers, id, token_refresh, x_api, token_file_path, world,
                 op, ready, force, arg_token, req, prepped, retries, result,
                 callLog, recreated, checkedAt, wire, received, pollLog, latest>>

(* ------------------------------------------------------------------ *)
(* Http.request, lines 274-312                                          *)
(* ------------------------------------------------------------------ *)
\* a caller of the instance calls request(r)
CallRequest ==
  /\ \E r \in UserRequests : StartOperation("request", r)
  /\ pc' = "request"
  /\ outcome' = None

\* line 276 and line 399: the freshness check at the top of request()
RequestFreshness ==
  /\ pc = "request"
  /\ checkedAt' = now
  /\ callLog' = Append(callLog, IF refresh_at < now THEN "stale" ELSE "fresh")
  /\ IF IsFresh(refresh_at, now, FALSE)
       THEN pc' = "configure"
       ELSE pc' = "refresh_token"
  /\ force' = FALSE
  /\ UNCHANGED <<raceVars, client, world, op, ready, arg_token, req, prepped, retries, outcome,
                 result, recreated, wire, received, pollLog, latest, calls>>

\* lines 278-286: payload, URL, prepared request, retry budget
Configure ==
  /\ pc = "configure"
  /\ headers' = SharedHeaders(headers, req)
  /\ IF ConfigureUrlRaises(req, id)
       THEN /\ Raise("TypeError")
            /\ UNCHANGED <<prepped, retries, callLog>>
       ELSE /\ prepped' = [method |-> RequestAction(req), url |-> ConfigureUrl(req, id),
                           headers |-> ConfigurePayloadHeaders(headers, req),
                           data |-> ConfigurePayloadData(req)]
            /\ retries' = DEFAULT_RETRIES
            /\ callLog' = Append(callLog, "build")
            /\ pc' = "send"
            /\ UNCHANGED outcome
  /\ UNCHANGED <<raceVars, refresh_at, flowVars, homeVars, token_refresh, token_file_path, world,
                 op, ready, force, arg_token, req, result, recreated, checkedAt, wire, received,
                 pollLog, latest, calls>>

\* line 290 got a response (any status); lines 309-312 decode it.  The response
\* hook _log_response (line 264) parses a non-empty body first, so a body that
\* is not JSON raises out of the send.
SendResponse ==
  /\ pc = "send"
  /\ wire' = prepped.headers
  /\ callLog' = Append(callLog, "response")
  /\ \E text \in BodyTexts :
       /\ received' = text
       /\ IF text # "" /\ ~IsJson(text)
            THEN Raise("JSONDecodeError") /\ UNCHANGED result
            ELSE /\ result' = IF text = "" THEN EmptyObject ELSE JsonLoads(text)
                 /\ IF ready = None
                      THEN ReturnToCaller
                      ELSE pc' = "returned" /\ UNCHANGED outcome
  /\ UNCHANGED <<raceVars, client, world, op, ready, force, arg_token, req, prepped, retries,
                 recreated, checkedAt, pollLog, latest, calls>>

\* variant: the exception is wrapped like a connection failure
ReRaise_Wrapped(e) == "TadoException"

\* line 294, raise e: the exception that was caught leaves request() as it is
ReRaise(e) == e

\* lines 292-294: a credentials exception out of the send is re-raised
SendCredentials ==
  /\ pc = "send"
  /\ wire' = prepped.headers
  /\ callLog' = Append(callLog, "credentials")
  /\ Raise(ReRaise("TadoWrongCredentialsException"))
  /\ UNCHANGED <<raceVars, client, world, op, ready, force, arg_token, req, prepped, retries,
                 result, recreated, checkedAt, received, pollLog, latest, calls>>

\* lines 295-300: connection error with retries left
SendRetry ==
  /\ pc = "send"
  /\ RetryAllowed(retries)
  /\ wire' = prepped.headers
  /\ callLog' = Append(callLog, "connection_error")
  /\ recreated' = Recreate(recreated)
  /\ retries' = retries - 1
  /\ UNCHANGED <<raceVars, client, world, op, pc, ready, force, arg_token, req, prepped, outcome,
                 result, checkedAt, received, pollLog, latest, calls>>

\* lines 301-307: connection error with the budget used up
SendExhausted ==
  /\ pc = "send"
  /\ ~RetryAllowed(retries)
  /\ wire' = prepped.headers
  /\ callLog' = Append(callLog, "connection_error")
  /\ result' = TadoExceptionFrom("ConnectionError")
  /\ Raise(result'.kind)
  /\ UNCHANGED <<raceVars, client, world, op, ready, force, arg_token, req, prepped, retries,
                 recreated, checkedAt, received, pollLog, latest, calls>>

(* ------------------------------------------------------------------ *)
(* _device_ready, lines 568-594                                         *)
(* ------------------------------------------------------------------ *)
\* line 570 calls _get_id, which issues the ME request
DeviceReady ==
  /\ pc = "device_ready"
  /\ ready' = "get_id"
  /\ BeginRequest(GetIdRequest)
  /\ UNCHANGED <<raceVars, client, world, op, force, arg_token, outcome, result, pollLog, latest,
                 calls>>

\* lines 581-583 and 570, then _check_x_line_generation issues the HOME request
GetIdReturns ==
  /\ pc = "returned" /\ ready = "get_id"
  /\ IF "homes" \notin DOMAIN result
       THEN /\ Raise("KeyError")
            /\ UNCHANGED <<id, ready, callVars>>
       ELSE /\ id' = result["homes"][1]["id"]
            /\ ready' = "x_line"
            /\ BeginRequest(XLineRequest)
            /\ UNCHANGED outcome
  /\ UNCHANGED <<raceVars, refresh_at, headers, flowVars, device_activation_status, token_refresh,
                 x_api, token_file_path, world, op, force, arg_token, result, pollLog,
                 latest, calls>>

\* lines 594 and 571-574
XLineReturns ==
  /\ pc = "returned" /\ ready = "x_line"
  /\ x_api' = PyBool(IsLineX(result))
  /\ user_code' = None
  /\ device_verification_url' = None
  /\ device_activation_status' = ReadyStatus
  /\ ReturnToCaller
  /\ ready' = None
  /\ UNCHANGED <<raceVars, refresh_at, headers, expires_at, id, token_refresh, token_file_path,
                 device_flow_data, world, op, force, arg_token, result, callVars,
                 pollLog, latest, calls>>

(* ------------------------------------------------------------------ *)
(* device_activation and _check_device_activation, lines 518-566        *)
(* ------------------------------------------------------------------ *)
\* a caller calls _login_device_flow() on the instance
CallLoginDeviceFlow ==
  /\ StartOperation("login", GetIdRequest)
  /\ pc' = "login_device_flow"
  /\ outcome' = None

\* variant: the guard is missing
NotYetStarted_Never(status) == FALSE

\* line 559
NotYetStarted(status) == status = NOT_STARTED

\* lines 556-560
CallDeviceActivation ==
  /\ StartOperation("activate", GetIdRequest)
  /\ IF NotYetStarted(device_activation_status)
       THEN outcome' = "TadoException" /\ pc' = "none"
       ELSE outcome' = None /\ pc' = "check_device_activation"

\* variant: the None guard is inverted, the check never fires for a set expiry
CodeExpired_NoneGuard(t) == expires_at = NoTime /\ t > expires_at

\* line 519-523: the device code has expired
CodeExpired(t) == expires_at # NoTime /\ t > expires_at

\* lines 519-527: expiry check, then time.sleep(interval)
CheckDeviceActivation ==
  /\ pc = "check_device_activation"
  /\ IF CodeExpired(now)
       THEN Raise("TadoException") /\ UNCHANGED <<now, pollLog>>
       ELSE IF device_flow_data = <<>>
       THEN \* self._device_flow_data was never assigned
            Raise("AttributeError") /\ UNCHANGED <<now, pollLog>>
       ELSE IF "interval" \notin DOMAIN device_flow_data[1]
       THEN Raise("KeyError") /\ UNCHANGED <<now, pollLog>>
       ELSE LET interval == device_flow_data[1]["interval"]
            IN /\ now + interval <= MaxTime
               /\ now' = now + interval
               /\ pollLog' = Append(pollLog, [ev |-> "sleep", at |-> now', secs |-> interval,
                                               status |-> 0, text |-> None])
               /\ pc' = "poll"
               /\ UNCHANGED outcome
  /\ UNCHANGED <<raceVars, client, file, op, ready, force, arg_token, req, prepped, retries,
                 result, callLog, recreated, checkedAt, wire, received, latest, calls>>

\* one entry of pollLog for an answer of the token endpoint (status 0: none)
PollEvent(ev, status, text) ==
  [ev |-> ev, at |-> now, secs |-> 0, status |-> status, text |-> text]

\* variant: every 400 counts as "not yet authorised"
AuthorizationPending_Any400(status, text) == status = 400

\* lines 547-550: status 400 and json()["error"] == "authorization_pending"
AuthorizationPending(status, text) ==
  status = 400 /\ JsonLoads(text)["error"] = "authorization_pending"

\* how lines 529-554 end for a response: "activated" (return True), "pending"
\* (return False) or the exception raised
PollClass(status, text) ==
  IF HookRaises(text) THEN "JSONDecodeError"
  ELSE IF status = 200
    THEN IF text = "" THEN "JSONDecodeError"            \* token_response.json()
         ELSE IF "access_token" \notin JsonKeys(text) THEN "KeyError"
         ELSE "activated"
  ELSE IF status = 400 /\ text = "" THEN "JSONDecodeError"
  ELSE IF status = 400 /\ "error" \notin JsonKeys(text) THEN "KeyError"
  ELSE IF AuthorizationPending(status, text) THEN "pending"
  ELSE "TadoException"

\* lines 539-540: the POST fails with a connection error
PollConnectionError ==
  /\ pc = "poll"
  /\ pollLog' = Append(pollLog, PollEvent("connection_error", 0, None))
  /\ IF ConnectionErrorRaises(FALSE) THEN Raise("TadoException") ELSE ReturnToCaller
  /\ UNCHANGED <<raceVars, client, world, op, ready, force, arg_token, req, prepped, retries,
                 result, callLog, recreated, checkedAt, wire, received, latest, calls>>

\* line 554, and the answers the code cannot read: an answer that is neither
\* a 200 token document nor 400 authorization_pending
PollFailed ==
  /\ pc = "poll"
  /\ \E status \in PollStatuses, text \in PollTexts :
       /\ PollClass(status, text) \notin {"activated", "pending"}
       /\ pollLog' = Append(pollLog, PollEvent("other", status, text))
       /\ Raise(PollClass(status, text))
  /\ UNCHANGED <<raceVars, client, world, op, ready, force, arg_token, req, prepped, retries,
                 result, callLog, recreated, checkedAt, wire, received, latest, calls>>

\* lines 547-552: 400 authorization_pending, device_activation loops
PollPending ==
  /\ pc = "poll"
  /\ \E status \in PollStatuses, text \in PollTexts :
       /\ PollClass(status, text) = "pending"
       /\ pollLog' = Append(pollLog, PollEvent("authorization_pending", status, text))
  /\ pc' = AfterPending
  /\ UNCHANGED <<raceVars, client, world, op, ready, force, arg_token, req, prepped, retries,
                 outcome, result, callLog, recreated, checkedAt, wire, received, latest, calls>>

\* lines 542-544: 200, the tokens are stored; device_activation goes on to
\* _device_ready (line 566)
PollAccepted ==
  /\ pc = "poll"
  /\ \E status \in PollStatuses, text \in PollTexts :
       /\ PollClass(status, text) = "activated"
       /\ pollLog' = Append(pollLog, PollEvent("200", status, text))
  /\ \E pair \in TokenPairs, expires_in \in TokenExpiresIn :
     LET access_token == pair[1]
         refresh_token == pair[2]
     IN
       /\ SetOauthHeader(access_token, expires_in, refresh_token)
       /\ \/ /\ SaveToken(refresh_token)
             /\ pc' = "device_ready"
             /\ UNCHANGED <<outcome, result>>
          \/ /\ SaveTokenFails(refresh_token)
             /\ result' = TadoExceptionFrom("OSError")
             /\ Raise(result'.kind)
  /\ UNCHANGED <<raceVars, flowVars, homeVars, token_file_path, now, op, ready, force, arg_token,
                 req, prepped, retries, callLog, recreated, checkedAt, wire, received,
                 calls>>

(* ------------------------------------------------------------------ *)
(* The clock                                                           *)
(* ------------------------------------------------------------------ *)
\* time passes between the polls of the device flow (the time between two
\* operations is chosen when an operation starts)
Tick ==
  /\ pc = "check_device_activation"
  /\ \E d \in Elapsed \ {0} : now + d <= MaxTime /\ now' = now + d
  /\ UNCHANGED <<raceVars, client, file, control, history>>

(* ------------------------------------------------------------------ *)
(* TadoClientInitializer.get_client, src/PyTado/factory/initializer.py  *)
(* lines 57-67: the factory that picks the domain-method implementation *)
(* ------------------------------------------------------------------ *)
\* variant: the generation flag is not consulted
ClientClass_AlwaysLegacy(status, x_line) ==
  IF status = COMPLETED THEN "Tado" ELSE "TadoException"

\* lines 59-67: what get_client returns (the class of the client) or raises;
\* `if self.http.is_x_line` is the truth value of True, False or None
ClientClass(status, x_line) ==
  IF status = COMPLETED
    THEN IF x_line = "True" THEN "TadoX" ELSE "Tado"
    ELSE "TadoException"

\* a caller calls get_client() on the initializer that owns the instance; the
\* call reads two properties of the Http object and takes no time
GetClient ==
  /\ pc = "none"
  /\ op' = "get_client"
  /\ LET class == ClientClass(device_activation_status, x_api)
     IN /\ outcome' = IF class = "TadoException" THEN class ELSE "ok"
        /\ result' = IF class = "TadoException" THEN EmptyObject ELSE [class |-> class]
  /\ ready' = None /\ pollLog' = <<>>
  /\ calls' = [NoCalls EXCEPT !.status0 = device_activation_status]
  /\ arg_token' = None
  /\ ClearCall(GetIdRequest)
  /\ UNCHANGED <<raceVars, client, world, pc, force, latest>>

Next ==
  \/ Bootstrap
  \/ RefreshConnectionError
  \/ RefreshRejected
  \/ RefreshUndecodable
  \/ RefreshAccepted
  \/ LoginAlreadyStarted
  \/ LoginConnectionError
  \/ LoginFailed
  \/ LoginDeviceFlow
  \/ CallRequest
  \/ RequestFreshness
  \/ Configure
  \/ SendResponse
  \/ SendCredentials
  \/ SendRetry
  \/ SendExhausted
  \/ DeviceReady
  \/ GetIdReturns
  \/ XLineReturns
  \/ CallLoginDeviceFlow
  \/ CallDeviceActivation
  \/ CheckDeviceActivation
  \/ PollConnectionError
  \/ PollFailed
  \/ PollPending
  \/ PollAccepted
  \/ Tick
  \/ GetClient

Spec == Init /\ [][Next]_vars

(* ------------------------------------------------------------------ *)
(* A second instance on the same token file: the caller drops the       *)
(* instance and constructs Http(token_file_path=path) again; lines      *)
(* 172-190 run on a new object while the file is as the old one left it *)
(* ------------------------------------------------------------------ *)
NewInstance ==
  /\ pc \in {"none", "dead"}
  /\ token_file_path
  /\ \E d \in Elapsed : now + d <= MaxTime /\ now' = now + d
  /\ refresh_at' = now' + InitialRefreshDelay
  /\ headers' = [k \in {"Referer"} |-> RefererValue]
  /\ user_code' = None
  /\ device_verification_url' = None
  /\ device_activation_status' = NOT_STARTED
  /\ expires_at' = NoTime
  /\ id' = NoId
  /\ token_refresh' = None
  /\ x_api' = None
  /\ device_flow_data' = <<>>
  /\ arg_token' = None
  /\ op' = "ctor"
  /\ pc' = "bootstrap"
  /\ ready' = None
  /\ force' = FALSE
  /\ outcome' = None
  /\ result' = EmptyObject
  /\ ClearCall(GetIdRequest)
  /\ pollLog' = <<>>
  /\ latest' = NoLatest
  /\ calls' = [NoCalls EXCEPT !.written =
                 IF latest.access # None /\ file = JsonDumpToken(token_refresh)
                   THEN token_refresh ELSE None]
  /\ UNCHANGED <<raceVars, token_file_path, file>>

NextRestart ==
  \/ Next
  \/ NewInstance

SpecRestart == Init /\ [][NextRestart]_vars

(* ------------------------------------------------------------------ *)
(* The request descriptors and the builders, on their own: a caller     *)
(* constructs any descriptor (TadoRequest or TadoXRequest), may assign  *)
(* its action afterwards, and request() prepares it (lines 278-286).    *)
(* ------------------------------------------------------------------ *)
Endpoints == {"MY_API", "HOPS_API", "MOBILE", "EIQ", "TARIFF", "GENIE", "MINDER"}
Domains == {"HOME", "DEVICES", "ME", "HOME_BY_BRIDGE"}
Verbs == {"GET", "SET", "RESET", "CHANGE"}
Modes == {"OBJECT", "PLAIN"}
Commands == {None, "zones", "temperatureOffset"}
Devices == {None, "abc123"}
Payloads == {None, "payload"}
ParamChoices == {NoParams, Params(<<>>), Params(<< <<"test", "value">> >>),
                 Params(<< <<"from", "a b">>, <<"to", "c">> >>)}

\* what the caller is about to do: the class, the constructor arguments and
\* the verb assigned after construction (None: no assignment)
DescriptorArgs ==
  [class : {"TadoRequest", "TadoXRequest"}, endpoint : Endpoints, command : Commands,
   action : Verbs, payload : Payloads, domain : Domains, device : Devices, mode : Modes,
   params : ParamChoices, assign : Verbs \cup {None}]

\* the instance is as __init__ leaves it, with or without a resolved home id
InitBuilder ==
  /\ now = 0
  /\ refresh_at = now + InitialRefreshDelay
  /\ headers = [k \in {"Referer"} |-> RefererValue]
  /\ user_code = None
  /\ device_verification_url = None
  /\ device_activation_status = NOT_STARTED
  /\ expires_at = NoTime
  /\ id \in HomeIds \cup {NoId}
  /\ token_refresh = None
  /\ x_api = None
  /\ token_file_path = FALSE
  /\ device_flow_data = <<>>
  /\ file = FileAbsent
  /\ arg_token = None
  /\ op = "describe"
  /\ pc = "construct"
  /\ ready = None
  /\ force = FALSE
  /\ req \in DescriptorArgs
  /\ prepped = NoPrepped
  /\ retries = 0
  /\ outcome = None
  /\ result = EmptyObject
  /\ callLog = <<>>
  /\ recreated = 0
  /\ checkedAt = NoTime
  /\ wire = EmptyObject
  /\ received = None
  /\ pollLog = <<>>
  /\ latest = NoLatest
  /\ calls = NoCalls
  /\ threads = NoThreads
  /\ writes = <<>>

\* TadoRequest.__init__ (lines 75-93) or TadoXRequest.__init__ (lines 99-120),
\* then the assignment request.action = verb when the caller makes one
Construct(args) ==
  LET r == IF args.class = "TadoXRequest"
             THEN TadoXRequest(args.endpoint, args.command, args.action, args.payload,
                               args.domain, args.device, args.mode, args.params)
             ELSE TadoRequest(args.endpoint, args.command, args.action, args.payload,
                              args.domain, args.device, args.mode, args.params)
  IN IF args.assign = None THEN r ELSE SetAction(r, args.assign)

Describe ==
  /\ pc = "construct"
  /\ req' = Construct(req)
  /\ pc' = "configure"
  /\ UNCHANGED <<raceVars, client, world, op, ready, force, arg_token, prepped, retries, outcome,
                 result, history>>

NextBuilder ==
  \/ Describe
  \/ Configure

SpecBuilder == InitBuilder /\ [][NextBuilder]_vars

(* ------------------------------------------------------------------ *)
(* One instance shared by two threads that call request().  The code    *)
(* takes no lock anywhere, so the threads interleave between the        *)
(* statements of request(), _refresh_token and _set_oauth_header; an    *)
(* attribute read or write is one step, an HTTP exchange is two (the    *)
(* request leaves, the answer arrives).                                 *)
(* ------------------------------------------------------------------ *)
MaxCalls == 1           \* request() calls each thread makes

\* the instance after a completed bootstrap: the token pair acc1/ref1 was
\* obtained at instant 0 and `now` seconds have passed since
InitThreads ==
  /\ now \in Elapsed
  /\ \E e \in TokenExpiresIn :
       /\ refresh_at = RefreshAt(0, e)
       /\ latest = [access |-> "acc1", refresh |-> "ref1", at |-> 0, expires_in |-> e]
  /\ headers = SetHeader([k \in {"Referer"} |-> RefererValue], "Authorization", Bearer("acc1"))
  /\ token_refresh = "ref1"
  /\ user_code = None
  /\ device_verification_url = None
  /\ device_activation_status = COMPLETED
  /\ expires_at = NoTime
  /\ id \in HomeIds
  /\ x_api = "False"
  /\ token_file_path \in BOOLEAN
  /\ device_flow_data = <<>>
  /\ file = IF token_file_path THEN JsonDumpToken("ref1") ELSE FileAbsent
  /\ arg_token = None
  /\ op = "request"
  /\ pc = "none"
  /\ ready = None
  /\ force = FALSE
  /\ req = GetIdRequest
  /\ prepped = NoPrepped
  /\ retries = 0
  /\ outcome = None
  /\ result = EmptyObject
  /\ callLog = <<>>
  /\ recreated = 0
  /\ checkedAt = NoTime
  /\ wire = EmptyObject
  /\ received = None
  /\ pollLog = <<>>
  /\ calls = NoCalls
  /\ threads = NoThreads
  /\ writes = <<>>

\* variant: _refresh_token is entered under a lock held until it returns
RefreshEntryOpen_Locked(others) == \A u \in others : u.pc \notin {"posted", "set_header"}

\* lines 399-412: nothing is acquired between the freshness check and the
\* POST, whatever the other threads are doing inside _refresh_token
RefreshEntryOpen(others) == TRUE

\* thread t calls request(GetIdRequest), line 274
ThreadCall(t) ==
  /\ threads[t].pc = "idle"
  /\ threads[t].n < MaxCalls
  /\ threads' = [threads EXCEPT ![t] = [IdleThread EXCEPT !.pc = "request",
                                                           !.n = threads[t].n + 1]]
  /\ UNCHANGED <<client, world, control, history, writes>>

\* line 276 and line 399: the thread reads _refresh_at
ThreadFreshness(t) ==
  /\ threads[t].pc = "request"
  /\ threads' = [threads EXCEPT ![t] =
                   IF IsFresh(refresh_at, now, FALSE)
                     THEN [@ EXCEPT !.pc = "configure"]
                     ELSE [@ EXCEPT !.pc = "refresh_token", !.stale = TRUE]]
  /\ UNCHANGED <<client, world, control, history, writes>>

\* lines 402-422: the thread reads _token_refresh, replaces the session and
\* sends the POST
ThreadRefreshPost(t) ==
  /\ threads[t].pc = "refresh_token"
  /\ RefreshEntryOpen({threads[u] : u \in Threads \ {t}})
  /\ threads' = [threads EXCEPT ![t].pc = "posted", ![t].sent = RefreshTokenSent]
  /\ recreated' = Recreate(recreated)
  /\ UNCHANGED <<client, world, control, callLog, checkedAt, wire, received, pollLog,
                 latest, calls, writes>>

\* lines 424-439 and the response hook: the POST of the thread ends in an
\* exception, which leaves request()
ThreadRefreshFails(t) ==
  /\ threads[t].pc = "posted"
  /\ \/ ConnectionErrorRaises(FALSE)
     \/ \E status \in PollStatuses, text \in RefreshTexts :
          RefreshClass(status, text, FALSE) # "True"
  /\ threads' = [threads EXCEPT ![t].pc = "idle"]
  /\ UNCHANGED <<client, world, control, history, writes>>

\* lines 441 and 344-353: the answer is 200 with a token document; the thread
\* writes _token_refresh and _refresh_at
ThreadStoreToken(t) ==
  /\ threads[t].pc = "posted"
  /\ \E pair \in TokenPairs, expires_in \in TokenExpiresIn :
       /\ token_refresh' = pair[2]
       /\ refresh_at' = RefreshAt(now, expires_in)
       /\ threads' = [threads EXCEPT ![t].pc = "set_header", ![t].access = pair[1],
                                     ![t].refresh = pair[2],
                                     ![t].expires_in = expires_in]
  /\ UNCHANGED <<headers, flowVars, homeVars, token_file_path, world, control, history,
                 writes>>

\* lines 355-357: the thread writes the Authorization header and saves the
\* refresh token the instance holds at that moment
ThreadStoreHeader(t) ==
  /\ threads[t].pc = "set_header"
  /\ headers' = SetHeader(headers, "Authorization", Bearer(threads[t].access))
  /\ latest' = [access |-> threads[t].access, refresh |-> threads[t].refresh,
                at |-> now, expires_in |-> threads[t].expires_in]
  /\ writes' = Append(writes, [by |-> t, access |-> threads[t].access,
                               sent |-> threads[t].sent])
  /\ \/ /\ SaveToken(token_refresh)
        /\ threads' = [threads EXCEPT ![t].pc = "configure"]
     \/ /\ SaveTokenFails(token_refresh)
        /\ threads' = [threads EXCEPT ![t].pc = "idle"]
  /\ UNCHANGED <<refresh_at, token_refresh, flowVars, homeVars, token_file_path, now,
                 control, callLog, recreated, checkedAt, wire, received, pollLog, calls>>

\* lines 278-312: the thread prepares its request with the header map of the
\* instance, sends it and leaves request()
ThreadDispatch(t) ==
  /\ threads[t].pc = "configure"
  /\ headers' = ConfigurePayloadHeaders(headers, GetIdRequest)
  /\ threads' = [threads EXCEPT ![t].pc = "idle",
                                ![t].bearer = headers'["Authorization"]]
  /\ UNCHANGED <<refresh_at, flowVars, homeVars, token_refresh, token_file_path, world,
                 control, history, writes>>

NextThreads ==
  \/ \E t \in Threads : ThreadCall(t)
  \/ \E t \in Threads : ThreadFreshness(t)
  \/ \E t \in Threads : ThreadRefreshPost(t)
  \/ \E t \in Threads : ThreadRefreshFails(t)
  \/ \E t \in Threads : ThreadStoreToken(t)
  \/ \E t \in Threads : ThreadStoreHeader(t)
  \/ \E t \in Threads : ThreadDispatch(t)

SpecThreads == InitThreads /\ [][NextThreads]_vars

(* ------------------------------------------------------------------ *)
(* device_activation() to its end.  The constructor,                    *)
(* _login_device_flow() and device_activation() are the operations; the *)
(* thread that runs an operation keeps running and every HTTP exchange  *)
(* ends (with an answer or a connection error), so a step of the        *)
(* operation in progress that stays possible is eventually taken.       *)
(* ------------------------------------------------------------------ *)
\* one step of the operation in progress
OperationStep ==
  \/ Bootstrap
  \/ RefreshConnectionError
  \/ RefreshRejected
  \/ RefreshUndecodable
  \/ RefreshAccepted
  \/ LoginAlreadyStarted
  \/ LoginConnectionError
  \/ LoginFailed
  \/ LoginDeviceFlow
  \/ RequestFreshness
  \/ Configure
  \/ SendResponse
  \/ SendCredentials
  \/ SendRetry
  \/ SendExhausted
  \/ DeviceReady
  \/ GetIdReturns
  \/ XLineReturns
  \/ CheckDeviceActivation
  \/ PollConnectionError
  \/ PollFailed
  \/ PollPending
  \/ PollAccepted

NextActivation ==
  \/ OperationStep
  \/ CallLoginDeviceFlow
  \/ CallDeviceActivation
  \/ Tick

SpecActivation == Init /\ [][NextActivation]_vars /\ WF_vars(OperationStep)

(* ------------------------------------------------------------------ *)
(* The domain API layer over the instance: a TadoBase object            *)
(* (interface/api/base_tado.py) and the Tado wrapper                    *)
(* (interface/interface.py).  A caller reads an attribute of either and *)
(* calls it.                                                            *)
(* ------------------------------------------------------------------ *)
ApiLayers == {"TadoBase", "Tado"}
ApiNames == {"device_activation_status", "device_verification_url", "get_me",
             "get_refresh_token"}
ApiOp(layer, name) == layer \o "." \o name

\* TadoBase.__getattribute__, lines 120-125
exclude_list == {"device_activation", "device_activation_status", "device_verification_url",
                 "from_http"}

\* variant: only a client that has not started is refused
EnsureDeviceActivationRaises_NotStarted(name, status) ==
  name \notin exclude_list /\ status = NOT_STARTED

\* TadoBase.__getattribute__ and _ensure_device_activation, lines 127-135: the
\* names of the model do not start with "_"
EnsureDeviceActivationRaises(name, status) ==
  name \notin exclude_list /\ status # COMPLETED

\* the methods class Tado defines itself, lines 92-112; normal lookup finds
\* them and __getattr__ does not run
TadoOwnMethods == {"device_verification_url", "device_activation_status", "device_activation",
                   "get_refresh_token"}

\* Tado.__getattr__ and _ensure_api_initialized, lines 85-90 and 114-125: the
\* api object exists only once the status was seen COMPLETED
EnsureApiInitializedRaises(name, status) ==
  name \notin TadoOwnMethods /\ status # COMPLETED

\* the three accessors, which read a field of the instance
ApiValue(name) ==
  CASE name = "device_activation_status" -> device_activation_status
    [] name = "device_verification_url" -> device_verification_url
    [] name = "get_refresh_token" -> token_refresh

\* a caller evaluates layer.name(): the guard of the layer runs first; past it
\* an accessor returns its field, a name the class does not have is an
\* AttributeError, and get_me goes on to request() (base_tado.py lines 152-161)
ApiAccess ==
  \E layer \in ApiLayers, name \in ApiNames :
    LET raises == IF layer = "TadoBase"
                    THEN EnsureDeviceActivationRaises(name, device_activation_status)
                    ELSE EnsureApiInitializedRaises(name, device_activation_status)
    IN IF ~raises /\ name = "get_me"
         THEN /\ StartOperation(ApiOp(layer, name), GetIdRequest)
              /\ pc' = "request"
              /\ outcome' = None
         ELSE /\ pc = "none"
              /\ op' = ApiOp(layer, name)
              /\ outcome' = IF raises THEN "TadoException"
                             ELSE IF layer = "TadoBase" /\ name = "get_refresh_token"
                               THEN "AttributeError"
                             ELSE "ok"
              /\ result' = IF outcome' = "ok" THEN [value |-> ApiValue(name)] ELSE EmptyObject
              /\ ready' = None /\ pollLog' = <<>>
              /\ calls' = [NoCalls EXCEPT !.status0 = device_activation_status]
              /\ arg_token' = None
              /\ ClearCall(GetIdRequest)
              /\ UNCHANGED <<raceVars, client, world, pc, force, latest>>

NextApi ==
  \/ NextActivation
  \/ ApiAccess

SpecApi == Init /\ [][NextApi]_vars

(* ------------------------------------------------------------------ *)
(* A completed instance whose caller issues requests without payload    *)
(* and with a payload in either payload mode, one after the other.      *)
(* ------------------------------------------------------------------ *)
HeaderRequests ==
  { TadoRequest("MY_API", None, "GET", None, "ME", None, "OBJECT", NoParams),
    TadoRequest("MY_API", "zones", "SET", "payload", "HOME", None, "OBJECT", NoParams),
    TadoRequest("MY_API", "zones", "CHANGE", "payload", "HOME", None, "PLAIN", NoParams) }

\* a caller of the instance calls request(r)
CallRequestOf ==
  /\ \E r \in HeaderRequests : StartOperation("request", r)
  /\ pc' = "request"
  /\ outcome' = None

NextHeaders ==
  \/ CallRequestOf
  \/ RequestFreshness
  \/ RefreshConnectionError
  \/ RefreshRejected
  \/ RefreshUndecodable
  \/ RefreshAccepted
  \/ Configure
  \/ SendResponse
  \/ SendCredentials
  \/ SendRetry
  \/ SendExhausted

SpecHeaders == InitThreads /\ [][NextHeaders]_vars

TypeOK ==
  /\ device_activation_status \in DeviceActivationStatus
  /\ now \in 0..MaxTime
  /\ retries \in 0..DEFAULT_RETRIES
  /\ x_api \in {None, "True", "False"}
  /\ id \in HomeIds \cup {NoId}

(* ------------------------------------------------------------------ *)
(* Properties                                                          *)
(* ------------------------------------------------------------------ *)
SendEvents == {"response", "credentials", "connection_error"}
Positions(log, events) == {i \in 1..Len(log) : log[i] \in events}
Count(log, events) == Cardinality(Positions(log, events))
LastOf(log) == log[Len(log)]
\* the request() call recorded in callLog has ended (returned or raised)
CallEnded == pc # "send" /\ pc # "configure" /\ pc # "refresh_token" /\ pc # "request"

\* C1: the activation status never moves backward in the order
\* NOT_STARTED < PENDING < COMPLETED; so a PENDING client is never NOT_STARTED
\* again and a COMPLETED client stays COMPLETED.
C1_StatusMonotonic ==
  [][StatusRank(device_activation_status') >= StatusRank(device_activation_status)]_vars

\* a COMPLETED client on which a later _login_device_flow() was refused
C1_Witness ==
  /\ device_activation_status = COMPLETED
  /\ op = "login" /\ pc = "none" /\ outcome = "TadoException"

\* what C2 asks of the headers of a resource request that was sent
SentWithValidBearer ==
  /\ "Referer" \in DOMAIN wire
  /\ "Authorization" \in DOMAIN wire
  /\ latest.access # None
  /\ wire["Authorization"] = <<"Bearer ", latest.access>>
  /\ checkedAt <= latest.at + latest.expires_in

\* C2 as stated: in every state of the client, whatever the activation status,
\* a resource request that was sent carries Referer and a bearer token that is
\* the most recently obtained one and had not expired at the freshness check.
C2_Original == wire # EmptyObject => SentWithValidBearer

\* C2 amended: the same for every request() made once the client has obtained
\* a token; a COMPLETED client always has.
C2_BearerOnceTokenObtained ==
  /\ (wire # EmptyObject /\ latest.access # None => SentWithValidBearer)
  /\ (device_activation_status = COMPLETED => latest.access # None)

\* a request that was sent after its token had been refreshed in the same call
C2_Witness ==
  /\ wire # EmptyObject
  /\ device_activation_status = COMPLETED
  /\ op = "request"
  /\ Len(callLog) >= 2 /\ callLog[2] = "refresh_ok"

\* C3: in every request() call the freshness check comes first; when
\* refresh_at has passed, the token POST has completed before the URL is built
\* and before anything is sent; when the refresh raises, nothing is built or
\* sent in that call and the call is over.
C3_RefreshBeforeDispatch ==
  /\ callLog # <<>> => callLog[1] \in {"fresh", "stale"}
  /\ \A i \in 1..Len(callLog) :
       /\ callLog[i] \in {"fresh", "stale"} => i = 1
       /\ callLog[i] \in {"refresh_ok", "refresh_raise"} => i = 2 /\ callLog[1] = "stale"
       /\ callLog[i] = "build" =>
            /\ callLog[1] = "stale" => i = 3 /\ callLog[2] = "refresh_ok"
            /\ callLog[1] = "fresh" => i = 2
       /\ callLog[i] \in SendEvents => \E j \in 1..(i - 1) : callLog[j] = "build"
  /\ (Len(callLog) >= 2 /\ callLog[2] = "refresh_raise") =>
       /\ Len(callLog) = 2
       /\ wire = EmptyObject
       /\ pc \in {"none", "dead"}
       /\ outcome \in {"TadoException", "TadoWrongCredentialsException",
                      "JSONDecodeError", "KeyError"}

\* a call that found the token stale, refreshed it, and then got a response
C3_Witness ==
  /\ Len(callLog) = 4
  /\ callLog = <<"stale", "refresh_ok", "build", "response">>
  /\ wire # EmptyObject

\* C4: after a successful token acquisition refresh_at is the instant of the
\* acquisition plus expires_in minus 30 seconds, strictly before the real
\* expiry of the token.
C4_SkewInvariant ==
  latest.access # None =>
    /\ refresh_at = latest.at + latest.expires_in - 30
    /\ refresh_at < latest.at + latest.expires_in

\* a token obtained by a refresh inside request(), with the short expires_in
C4_Witness ==
  /\ latest.access # None /\ latest.expires_in = 20
  /\ Len(callLog) >= 2 /\ callLog[2] = "refresh_ok"

\* the call recorded in callLog ended because every send failed
AllSendsFailed ==
  /\ CallEnded
  /\ callLog # <<>> /\ LastOf(callLog) = "connection_error"
  /\ Count(callLog, {"response", "credentials"}) = 0

\* C5 as stated: when every send of a call fails with a connection error the
\* call makes 6 attempts, recreates the session exactly 5 times and raises
\* TadoException.
C5_Original ==
  AllSendsFailed =>
    /\ Count(callLog, SendEvents) = 6
    /\ recreated = 5
    /\ outcome = "TadoException"

\* C5 amended: 6 attempts, the session recreated exactly 5 times by the retry
\* loop, that is 5 times in the call when the token was still fresh and 6
\* times when the call began by refreshing the token, then TadoException and
\* never TadoWrongCredentialsException.
C5_ExhaustedBudget ==
  AllSendsFailed =>
    /\ Count(callLog, SendEvents) = 6
    /\ retries = 0
    /\ recreated = 5 + Count(callLog, {"refresh_ok"})
    /\ (callLog[1] = "fresh" => recreated = 5)
    /\ outcome = "TadoException"

\* a call with a fresh token whose six sends all failed
C5_Witness ==
  /\ AllSendsFailed
  /\ callLog[1] = "fresh"
  /\ op = "request" /\ pc = "none"

BootstrapByToken == op = "ctor" /\ (arg_token # None \/ calls.file_read) /\ pc # "bootstrap"

\* C7: with a saved refresh token (argument, or loaded from the token file)
\* the constructor does one forced refresh with that token and no
\* device-authorization call; when the refresh is answered 200 and the
\* constructor returns, the follow-ups have run and the status is COMPLETED;
\* an explicit token wins and the file is then not read.
C7_SavedTokenBootstrap ==
  BootstrapByToken =>
    /\ calls.authorize = 0
    /\ calls.forced <= 1
    /\ pc # "refresh_token" /\ pc # "dead" => calls.forced = 1
    /\ calls.forced = 1 =>
         calls.forced_token = IF arg_token # None THEN arg_token ELSE calls.loaded
    /\ arg_token # None => ~calls.file_read
    /\ (pc = "none" /\ latest.access # None) =>
         /\ device_activation_status = COMPLETED
         /\ id # NoId /\ x_api # None

\* explicit token given while a token file with another token exists
C7_Witness ==
  /\ op = "ctor" /\ pc = "none" /\ outcome = "ok"
  /\ arg_token \in SavedTokens /\ token_file_path
  /\ calls.forced = 1 /\ calls.forced_token = arg_token /\ ~calls.file_read
  /\ device_activation_status = COMPLETED

\* C8: when the forced bootstrap refresh is answered with a status other than
\* 200, the refresh returns failure without raising and the constructor falls
\* back to the device flow: it calls the device-authorization endpoint and
\* the client ends PENDING with user_code and verification_url set.
C8_FallbackToDeviceFlow ==
  (BootstrapByToken /\ pc = "none" /\ outcome = "ok" /\ calls.forced = 1
     /\ latest.access = None) =>
    /\ calls.authorize = 1
    /\ device_activation_status = PENDING
    /\ user_code # None /\ device_verification_url # None

\* the polls of the current device_activation(), in order
PollPositions == {i \in 1..Len(pollLog) : pollLog[i].ev # "sleep"}
PendingTwiceThenOk ==
  /\ Len(pollLog) >= 1 /\ LastOf(pollLog).ev = "200"
  /\ Cardinality({i \in PollPositions : pollLog[i].ev = "authorization_pending"}) = 2
  /\ Cardinality(PollPositions) = 3

\* C9: every poll is directly preceded by a sleep of `interval` seconds; after
\* the poll answered 200 no further poll is made; when the answers were
\* authorization_pending twice and then 200 there were exactly 3 polls and 3
\* sleeps, the tokens and refresh_at are populated, and a device_activation()
\* that returns leaves the status COMPLETED.
C9_PollUntilActivated ==
  /\ \A i \in PollPositions :
       /\ i > 1 /\ pollLog[i - 1].ev = "sleep"
       /\ pollLog[i - 1].secs = device_flow_data[1]["interval"]
       /\ pollLog[i].at >= pollLog[i - 1].at
       /\ \A j \in PollPositions : j < i => pollLog[i].at - pollLog[j].at >= pollLog[i - 1].secs
  /\ (pollLog # <<>> /\ LastOf(pollLog).ev = "200") =>
       /\ pc # "poll" /\ pc # "check_device_activation"
       /\ latest.access # None /\ token_refresh # None
       /\ "Authorization" \in DOMAIN headers
       /\ refresh_at = latest.at + latest.expires_in - 30
  /\ PendingTwiceThenOk =>
       /\ Len(pollLog) = 6
       /\ Cardinality({i \in 1..Len(pollLog) : pollLog[i].ev = "sleep"}) = 3
  /\ (op = "activate" /\ pc = "none" /\ outcome = "ok") =>
       /\ device_activation_status = COMPLETED
       /\ pollLog # <<>> /\ LastOf(pollLog).ev = "200"

\* a PENDING client activated by the third poll
C9_Witness ==
  /\ PendingTwiceThenOk
  /\ calls.status0 = PENDING
  /\ op = "activate" /\ pc = "none" /\ outcome = "ok"
  /\ device_activation_status = COMPLETED

\* C10: a poll step that starts after code_expires_at raises TadoException
\* without sleeping, without a token-endpoint call, and leaves the status
\* and the credentials as they were.
C10_ExpiredCodeRaises ==
  [][(pc = "check_device_activation" /\ expires_at # NoTime /\ now > expires_at
        /\ pc' # pc) =>
       /\ outcome' = "TadoException"
       /\ pc' = "none"
       /\ now' = now
       /\ pollLog' = pollLog
       /\ UNCHANGED <<client, file, latest>>]_vars

\* device_activation() raised at the poll step that followed a pending answer
C10_Witness ==
  /\ op = "activate" /\ pc = "none" /\ outcome = "TadoException"
  /\ pollLog # <<>> /\ LastOf(pollLog).ev = "authorization_pending"
  /\ expires_at # NoTime /\ now > expires_at
  /\ device_activation_status = PENDING

\* C11: one poll has exactly three outcomes.  An answer with status 200 stores
\* the tokens and reports activated; 400 with error authorization_pending
\* reports not-yet and changes no client state; every other answer raises
\* TadoException and changes no client state.
C11_ThreeOutcomes ==
  [][(pc = "poll" /\ LastOf(pollLog').status # 0) =>
       LET r == LastOf(pollLog') IN
         IF r.status = 200
           THEN /\ token_refresh' # None
                /\ latest'.at = now
                /\ "Authorization" \in DOMAIN headers'
                /\ (pc' = "device_ready" \/ outcome' = "TadoException")
         ELSE IF r.status = 400 /\ r.text = PendingText
           THEN /\ pc' = "check_device_activation"
                /\ UNCHANGED <<client, file, latest>>
         ELSE /\ outcome' = "TadoException" /\ pc' = "none"
              /\ UNCHANGED <<client, file, latest>>]_vars

\* C12: _login_device_flow() on a client whose status is PENDING or COMPLETED
\* raises TadoException before any call to the device-authorization endpoint
\* and leaves user_code, verification_url, code_expires_at and the status
\* unchanged.
C12_NoSecondStart ==
  [][(pc = "login_device_flow" /\ device_activation_status \in {PENDING, COMPLETED}) =>
       /\ outcome' = "TadoException" /\ pc' = "none"
       /\ calls'.authorize = 0 /\ calls' = calls
       /\ UNCHANGED <<user_code, device_verification_url, expires_at,
                      device_activation_status, device_flow_data>>]_vars

\* a second start refused on a PENDING client, whose user code is still there
C12_Witness ==
  /\ op = "login" /\ pc = "none" /\ outcome = "TadoException"
  /\ calls.status0 = PENDING /\ device_activation_status = PENDING
  /\ calls.authorize = 0
  /\ user_code # None /\ expires_at # NoTime

\* C13: device_activation() on a NOT_STARTED client raises TadoException
\* without sleeping and without a poll, and the status stays NOT_STARTED.
C13_ActivationNeedsStart ==
  (op = "activate" /\ calls.status0 = NOT_STARTED) =>
    /\ pc = "none" /\ outcome = "TadoException"
    /\ pollLog = <<>>
    /\ calls.posts = 0 /\ calls.answer = NoResponse
    /\ device_activation_status = NOT_STARTED
    /\ latest.access = None

\* refused although a direct _login_device_flow() had fetched a device code
C13_Witness ==
  /\ op = "activate" /\ pc = "none" /\ outcome = "TadoException"
  /\ calls.status0 = NOT_STARTED
  /\ device_flow_data # <<>> /\ user_code # None

\* C14: a non-forced refresh (refresh_at has passed at the top of request())
\* that gets any answer with a status other than 200 raises
\* TadoWrongCredentialsException after exactly one POST; it is not retried in
\* the call and returns no failure value.
C14_NonForcedRefreshRaises ==
  [][(pc = "refresh_token" /\ ~force /\ calls'.posts # calls.posts
        /\ calls'.answer \notin {200, ConnectionFailed}) =>
       /\ outcome' = "TadoWrongCredentialsException"
       /\ pc' \in {"none", "dead"}
       /\ calls'.posts = calls.posts + 1]_vars

\* token-side calls attempted so far in the operation
Attempts(c, log) == c.posts + c.authorize + Cardinality({i \in 1..Len(log) : log[i].ev # "sleep"})

\* C15: a connection failure of a token refresh (forced or not), of a poll or
\* of the device-authorization call is not retried: the step in which it
\* happens makes exactly one attempt and ends the operation with
\* TadoException; in the forced bootstrap refresh the constructor raises.
C15_ConnectionFailureNotRetried ==
  [][(\/ calls'.answer = ConnectionFailed /\ calls' # calls
      \/ Len(pollLog') > Len(pollLog) /\ LastOf(pollLog').ev = "connection_error") =>
       /\ outcome' = "TadoException"
       /\ pc' = IF op = "ctor" THEN "dead" ELSE "none"
       /\ Attempts(calls', pollLog') = Attempts(calls, pollLog) + 1]_vars

\* the forced bootstrap refresh met a connection failure: no instance
C15_Witness ==
  /\ op = "ctor" /\ pc = "dead" /\ outcome = "TadoException"
  /\ calls.answer = ConnectionFailed
  /\ calls.forced = 1 /\ calls.posts = 1 /\ calls.authorize = 0

\* C16: once home_id and is_new_generation are resolved, no operation on the
\* client changes either of them.
C16_ResolvedOnce ==
  [][/\ id # NoId => id' = id
     /\ x_api # None => x_api' = x_api]_vars

\* C17: after activation is_x_line is true exactly when the home document
\* returned by the GET on the home root has a generation field equal to
\* "LINE_X"; no field, or any other value such as "LINE_X2", gives false.
C17_GenerationDetector ==
  (op \in {"ctor", "activate"} /\ pc = "none" /\ outcome = "ok"
     /\ device_activation_status = COMPLETED) =>
    /\ x_api \in {"True", "False"}
    /\ x_api = "True" <=> received = "{generation:LINE_X}"
    /\ received \in {"", "{}", "{generation:LINE_X2}", "{generation:PRE_LINE_X}"} =>
         x_api = "False"

\* an activation whose home document says LINE_X2
C17_Witness ==
  /\ op = "activate" /\ pc = "none" /\ outcome = "ok"
  /\ device_activation_status = COMPLETED
  /\ received = "{generation:LINE_X2}" /\ x_api = "False"

\* the URL C18 states for the descriptor req and the home id
C18_Url ==
  LET base == Endpoint(req.endpoint)
      path ==
        IF req.endpoint = "MOBILE" THEN base \o req.command
        ELSE IF req.domain \in {"DEVICES", "HOME_BY_BRIDGE"}
          THEN base \o Domain(req.domain) \o "/" \o req.device \o "/" \o req.command
        ELSE IF req.domain = "ME" THEN base \o "me"
        ELSE base \o "homes/" \o FmtD(id) \o "/" \o req.command
  IN IF req.params.given THEN path \o "?" \o Urlencode(req.params.items) ELSE path

\* C18: for every descriptor and home id the URL that is built is
\* base + command for the MOBILE endpoint whatever the domain, else
\* base + domain + "/" + device + "/" + command for DEVICES and HOME_BY_BRIDGE,
\* else base + "me" for ME whatever the command, else
\* base + "homes/" + home_id + "/" + command; "?" + urlencode(params) is
\* appended exactly when params are present.
C18_UrlBuilder ==
  pc = "send" =>
    /\ prepped.url = C18_Url
    /\ (req.endpoint = "MY_API" /\ ~req.params.given) =>
         /\ (req.domain = "DEVICES" /\ req.device = "abc123"
               /\ req.command = "temperatureOffset") =>
              prepped.url = "https://my.tado.com/api/v2/devices/abc123/temperatureOffset"
         /\ req.domain = "ME" => prepped.url = "https://my.tado.com/api/v2/me"
         /\ (req.domain = "HOME" /\ id = 1234 /\ req.command = "zones") =>
              prepped.url = "https://my.tado.com/api/v2/homes/1234/zones"
    /\ (req.endpoint = "MOBILE" /\ req.command = "zones" /\ req.params = Params(<< <<"test", "value">> >>)) =>
         prepped.url = "https://my.tado.com/mobile/1.9/zones?test=value"

\* a MOBILE descriptor with domain ME and query params was built
C18_Witness ==
  /\ pc = "send" /\ req.endpoint = "MOBILE" /\ req.domain = "ME"
  /\ req.command = "zones"
  /\ req.params = Params(<< <<"from", "a b">>, <<"to", "c">> >>)
  /\ prepped.url = "https://my.tado.com/mobile/1.9/zones?from=a+b&to=c"

\* the transport verb C19 states for a logical verb in each dialect
C19_Verb(class, verb) ==
  CASE verb = "GET" -> "GET"
    [] verb = "SET" -> "POST"
    [] verb = "RESET" -> "DELETE"
    [] verb = "CHANGE" -> IF class = "TadoXRequest" THEN "PATCH" ELSE "PUT"

\* C19: the transport verb of a descriptor is GET for GET, POST for SET,
\* DELETE for RESET in both dialects, PUT for CHANGE on a TadoRequest and
\* PATCH for CHANGE on a TadoXRequest, whether the verb was given to the
\* constructor or assigned afterwards; request() sends that verb.
C19_VerbTranslation ==
  [][/\ pc = "construct" =>
          RequestAction(req') =
            C19_Verb(req.class, IF req.assign # None THEN req.assign ELSE req.action)
     /\ (pc = "configure" /\ pc' = "send") =>
          /\ prepped'.method = RequestAction(req)
          /\ prepped'.method \in {"GET", "POST", "DELETE", "PUT", "PATCH"}
          /\ prepped'.method = "PATCH" => IsTadoX(req)
          /\ prepped'.method = "PUT" => ~IsTadoX(req)]_vars

\* a TadoXRequest holding CHANGE was prepared with PATCH
C19_Witness ==
  /\ pc = "send" /\ IsTadoX(req)
  /\ req["_action"] = "PUT" /\ prepped.method = "PATCH"

\* C20: the refresh token a successful acquisition wrote to the token file is
\* the token a new client on the same token_file_path loads and sends in its
\* one forced refresh; that client calls no device-authorization endpoint and,
\* when the refresh is answered 200 and the constructor returns, is COMPLETED.
C20_TokenFileRoundTrip ==
  (op = "ctor" /\ calls.written # None /\ pc # "bootstrap") =>
    /\ calls.file_read
    /\ calls.loaded = calls.written
    /\ calls.authorize = 0
    /\ calls.forced <= 1
    /\ pc # "refresh_token" => calls.forced = 1 /\ calls.forced_token = calls.written
    /\ (pc = "none" /\ latest.access # None) =>
         /\ device_activation_status = COMPLETED
         /\ id # NoId /\ x_api # None

\* a second instance completed from the token its predecessor had written
C20_Witness ==
  /\ op = "ctor" /\ pc = "none" /\ outcome = "ok"
  /\ calls.written = "ref2" /\ calls.loaded = "ref2" /\ calls.forced_token = "ref2"
  /\ calls.authorize = 0
  /\ device_activation_status = COMPLETED

\* C21: get_client() returns the new-generation client (TadoX) exactly when
\* the activation status is COMPLETED and is_x_line is true, the legacy client
\* (Tado) exactly when the status is COMPLETED and is_x_line is false, and
\* raises TadoException in every other activation status.
C21_ClientSelection ==
  op = "get_client" =>
    /\ pc = "none"
    /\ (outcome = "ok" /\ result = [class |-> "TadoX"])
         <=> (device_activation_status = COMPLETED /\ x_api = "True")
    /\ (outcome = "ok" /\ result = [class |-> "Tado"])
         <=> (device_activation_status = COMPLETED /\ x_api = "False")
    /\ outcome = "TadoException" <=> device_activation_status # COMPLETED
    /\ outcome \in {"ok", "TadoException"}

\* the factory handed out the new-generation client
C21_Witness ==
  /\ op = "get_client" /\ outcome = "ok" /\ result = [class |-> "TadoX"]
  /\ device_activation_status = COMPLETED /\ x_api = "True"

\* C22: on a shared client whose refresh_at has passed nothing holds a thread
\* back between the freshness check and the refresh POST (there is no lock),
\* whatever the other thread is doing; only a thread that observed the stale
\* refresh_at refreshes; every refresh POST carries the refresh token stored at
\* that moment, so two threads that post before either answer is stored send
\* the same token; and after the Authorization writes the header holds the
\* access token of the write that came last.
C22_RefreshRace ==
  /\ [](\A t \in Threads :
         /\ threads[t].pc = "refresh_token" => ENABLED ThreadRefreshPost(t)
         /\ threads[t].sent # None => threads[t].stale)
  /\ [](writes # <<>> => headers["Authorization"] = Bearer(LastOf(writes).access))
  /\ [][\A t \in Threads :
         (threads[t].pc = "refresh_token" /\ threads'[t].pc = "posted") =>
           threads'[t].sent = token_refresh]_vars

\* both threads saw the stale refresh_at, both sent ref1, both wrote the
\* header with different access tokens, and the later write is what is left
C22_Witness ==
  /\ \A t \in Threads : threads[t].stale /\ threads[t].sent = "ref1" /\ threads[t].pc = "idle"
  /\ Len(writes) = 2
  /\ writes[1].by # writes[2].by
  /\ writes[1].access = "acc2" /\ writes[2].access = "acc1"
  /\ headers["Authorization"] = Bearer("acc1")
  /\ \E t \in Threads : threads[t].bearer = Bearer("acc1") /\ writes[1].by = t

C24_ResponseEndsLoop ==
  [][(pc = "send" /\ Len(callLog') > Len(callLog) /\ LastOf(callLog') = "response") =>
       /\ pc' \in {"none", "returned"}
       /\ outcome' \in {"ok", None}
       /\ retries' = retries /\ recreated' = recreated
       /\ result' = IF received' = "" THEN EmptyObject ELSE JsonLoads(received')]_vars

\* C25: a TadoWrongCredentialsException raised by a send attempt of request()
\* leaves request() at once as a TadoWrongCredentialsException: the call makes
\* no further send, the session is not recreated and the retry counter is not
\* consumed.
C25_CredentialsNotRetried ==
  /\ [](\A i \in 1..Len(callLog) :
          callLog[i] = "credentials" => i = Len(callLog) /\ CallEnded)
  /\ [][(pc = "send" /\ Len(callLog') > Len(callLog) /\ LastOf(callLog') = "credentials") =>
          /\ outcome' = "TadoWrongCredentialsException"
          /\ pc' \in {"none", "dead"}
          /\ retries' = retries
          /\ recreated' = recreated
          /\ UNCHANGED <<client, file>>]_vars

\* the second send of a call raised the credentials exception, with four
\* retries still unused
C25_Witness ==
  /\ callLog = <<"fresh", "build", "connection_error", "credentials">>
  /\ op = "request" /\ pc = "none" /\ outcome = "TadoWrongCredentialsException"
  /\ retries = 4 /\ recreated = 1

\* the refresh token the instance holds: the one the most recent successful
\* token response returned or, before the first such response of the
\* instance, the one the token file handed over from an earlier run
StoredByRotation == IF latest.access # None THEN latest.refresh ELSE calls.loaded

\* C26: every refresh POST carries the explicitly supplied refresh token if
\* one is given and otherwise the refresh token the most recent successful
\* token response returned (handed over by the token file when the instance
\* has had no response of its own yet); a token response that is stored
\* replaces the stored refresh token and the Authorization header, and every
\* later request carries the new access token and never an older one.
C26_Rotation ==
  /\ [][calls'.posts = calls.posts + 1 =>
          \* only the bootstrap refresh of __init__ is given a token (line 193)
          /\ RefreshTokenSent = IF op = "ctor" /\ arg_token # None /\ calls.posts = 0
                                  THEN arg_token
                                  ELSE StoredByRotation
          /\ calls'.forced = calls.forced + 1 => calls'.forced_token = RefreshTokenSent]_vars
  /\ [](latest.access # None =>
          /\ token_refresh = latest.refresh
          /\ headers["Authorization"] = Bearer(latest.access)
          /\ wire # EmptyObject => wire["Authorization"] = Bearer(latest.access))
  /\ [][latest' # latest =>
          /\ token_refresh' = latest'.refresh
          /\ headers'["Authorization"] = Bearer(latest'.access)]_vars

\* a request() that rotated the tokens a second time: the bootstrap had
\* brought acc1/ref1, the refresh of the call brought acc2/ref2, and the
\* request went out with acc2
C26_Witness ==
  /\ op = "request" /\ pc = "none" /\ outcome = "ok"
  /\ calls.posts = 1 /\ calls.answer = 200
  /\ callLog = <<"stale", "refresh_ok", "build", "response">>
  /\ token_refresh = "ref2" /\ latest.refresh = "ref2"
  /\ wire["Authorization"] = Bearer("acc2")
  /\ file = JsonDumpToken("ref2")

\* the step is a send of request() that failed with a connection error and
\* is followed by a retry
RetriedFailure ==
  /\ pc = "send" /\ pc' = "send"
  /\ Len(callLog') > Len(callLog) /\ LastOf(callLog') = "connection_error"

\* C27: the session is closed and replaced exactly in a step that attempts a
\* token refresh (whether the POST then succeeds or fails) and in a step of
\* request() whose connection failure is followed by a retry, once each; no
\* other step replaces it: not a skipped refresh, not a send that gets a
\* response, not the failed attempt that exhausts the budget, not the
\* device-authorization call and not a device-flow poll.
C27_SessionReplacedOnlyOn ==
  [][IF calls'.posts = calls.posts + 1 \/ RetriedFailure
       THEN recreated' = recreated + 1
       ELSE \* the count starts again at 0 with each request() call
            /\ recreated' = recreated \/ (recreated' = 0 /\ callLog' = <<>>)
            /\ (pc = "request" /\ pc' = "configure") => recreated' = recreated
            /\ (pc = "send" /\ pc' # "send") => recreated' = recreated
            /\ calls'.authorize = calls.authorize + 1 => recreated' = recreated
            /\ Len(pollLog') > Len(pollLog) => recreated' = recreated]_vars

\* a call that replaced the session for its refresh and once more for the
\* retry, and not for the response that followed
C27_Witness ==
  /\ callLog = <<"stale", "refresh_ok", "build", "connection_error", "response">>
  /\ recreated = 2 /\ retries = 4
  /\ op = "request" /\ pc = "none"

\* C28: in every state a COMPLETED client has home_id and is_x_line resolved
\* and user_code and verification_url cleared, so is_x_line is absent only
\* while the status is not COMPLETED; and a follow-up request of _device_ready
\* that raises leaves the status as it was, never sets it to COMPLETED.
C28_CompletedIsResolved ==
  /\ [](device_activation_status = COMPLETED =>
          /\ id # NoId /\ x_api # None
          /\ user_code = None /\ device_verification_url = None)
  /\ [](x_api = None => device_activation_status # COMPLETED)
  /\ [][(ready # None /\ outcome' \notin {None, "ok"}) =>
          device_activation_status' = device_activation_status]_vars
  /\ [][device_activation_status' # device_activation_status =>
          outcome' \in {None, "ok"}]_vars

\* a client activated through the device flow: the user code it had shown is
\* gone, the home and its generation are known
C28_Witness ==
  /\ op = "activate" /\ pc = "none" /\ outcome = "ok"
  /\ calls.status0 = PENDING /\ device_activation_status = COMPLETED
  /\ expires_at # NoTime /\ device_flow_data # <<>>
  /\ id = 5678 /\ x_api = "True"
  /\ user_code = None /\ device_verification_url = None

\* C29: in every PENDING state user_code, device_code, the poll interval and
\* code_expires_at are set, code_expires_at is the instant the flow began plus
\* expires_in, and verification_url is the verification_uri followed by
\* "?user_code=" and the user code; an answer of the device-authorization
\* endpoint with a status other than 200 raises TadoException and leaves no
\* PENDING client.
C29_PendingIsPopulated ==
  /\ [](device_activation_status = PENDING =>
          /\ user_code # None /\ expires_at # NoTime
          /\ device_flow_data # <<>>
          /\ {"device_code", "interval", "user_code"} \subseteq DOMAIN device_flow_data[1]
          /\ device_flow_data[1]["interval"] > 0
          /\ user_code = device_flow_data[1]["user_code"]
          /\ device_verification_url =
               device_flow_data[1]["verification_uri"] \o "?user_code=" \o user_code)
  /\ [][(calls'.authorize = calls.authorize + 1 /\ calls'.answer = 200
           /\ outcome' = "ok") =>
          expires_at' = now + device_flow_data'[1]["expires_in"]]_vars
  /\ [][(calls'.authorize = calls.authorize + 1
           /\ calls'.answer \notin {200, ConnectionFailed}) =>
          /\ outcome' = "TadoException"
          /\ device_activation_status' # PENDING]_vars

\* the operation `op` got a token response: a refresh or a poll answered 200
ObtainedTokens ==
  \/ calls.posts > 0 /\ calls.answer = 200
  \/ pollLog # <<>> /\ \E i \in 1..Len(pollLog) : pollLog[i].ev = "200"

\* C30: with a token_file_path configured, after every operation that
\* obtained tokens (a poll or a refresh answered 200) and returned normally
\* the token file holds exactly {"refresh_token": t}, t being the refresh
\* token the instance holds; no step other than the storing of a token
\* response writes the file, and without a configured path the file is never
\* written.
C30_TokenFileFollowsMemory ==
  /\ []((token_file_path /\ pc = "none" /\ outcome = "ok" /\ ObtainedTokens) =>
          /\ file = JsonDumpToken(token_refresh)
          /\ file = FileJson([refresh_token |-> token_refresh])
          /\ token_refresh = latest.refresh)
  /\ [][file' # file =>
          /\ token_file_path
          /\ \/ calls'.posts = calls.posts + 1 /\ calls'.answer = 200
             \/ Len(pollLog') > Len(pollLog) /\ LastOf(pollLog').ev = "200"]_vars
  /\ [][~token_file_path => file' = file]_vars

\* an activation that stored acc1/ref1 from its poll and returned; the file,
\* which did not exist before, holds ref1
C30_Witness ==
  /\ op = "activate" /\ pc = "none" /\ outcome = "ok"
  /\ token_file_path /\ calls.posts = 0
  /\ pollLog # <<>> /\ LastOf(pollLog).ev = "200"
  /\ token_refresh = "ref1"
  /\ file = FileJson([refresh_token |-> "ref1"])

\* the step stored a token response: a poll answered 200 with a token
\* document, or a refresh answered 200 whose body could be read
TokenStoredStep ==
  \/ /\ calls'.posts = calls.posts + 1 /\ calls'.answer = 200
     /\ outcome' \notin {"JSONDecodeError", "KeyError"}
  \/ Len(pollLog') > Len(pollLog) /\ LastOf(pollLog').ev = "200"

\* C31: when the token endpoint answered 200 and the write of the token file
\* that follows fails (a path is configured, a refresh token was stored, and
\* the file does not hold it afterwards), the refresh or the poll ends right
\* there with a TadoException whose cause is the error of the write; the
\* operation does not go on.
C31_SaveFailureRaises ==
  [][(TokenStoredStep /\ token_file_path /\ token_refresh' # None
        /\ file' # JsonDumpToken(token_refresh')) =>
       /\ outcome' = "TadoException"
       /\ result' = [kind |-> "TadoException", args |-> <<"OSError">>, cause |-> "OSError"]
       /\ pc' \in {"none", "dead"}]_vars

\* a refresh inside request() was answered 200 with ref2, the write left the
\* file truncated and request() ended with the wrapped error
C31_Witness ==
  /\ op = "request" /\ pc = "none" /\ outcome = "TadoException"
  /\ calls.answer = 200 /\ token_refresh = "ref2"
  /\ token_file_path /\ file = FileCorrupt
  /\ result.cause = "OSError"
  /\ LastOf(callLog) = "refresh_raise"

\* C32: every HTTP call issued so far (the device-authorization call, each
\* device-code poll, each token refresh and each send attempt of request())
\* was issued with the timeout of 10 seconds.
C32_EveryCallHasTimeout ==
  /\ calls.authorize > 0 => AuthorizeTimeout = <<DEFAULT_TIMEOUT>>
  /\ calls.posts > 0 => RefreshTimeout = <<DEFAULT_TIMEOUT>>
  /\ PollPositions # {} => PollTimeout = <<DEFAULT_TIMEOUT>>
  /\ Positions(callLog, SendEvents) # {} => SendTimeout = <<DEFAULT_TIMEOUT>>

\* C33: when request() has used up its retries and raises, the exception it
\* raises carries the connection error as its cause and, among its arguments,
\* the number of retries that were attempted.
C33_ExhaustedErrorCarriesBoth ==
  (op = "request" /\ pc = "none" /\ outcome = "TadoException"
     /\ callLog # <<>> /\ LastOf(callLog) = "connection_error") =>
    /\ result.kind = "TadoException"
    /\ result.cause = "ConnectionError"
    /\ \E i \in 1..Len(result.args) : result.args[i] = FmtD(DEFAULT_RETRIES)

\* C34: for every request descriptor that request() configures: without a
\* payload the body is empty (and the header map is left as it was); with a
\* payload the body is the JSON encoding of the payload in both payload modes,
\* Content-Type is text/plain;charset=UTF-8 in mode PLAIN and
\* application/json;charset=UTF-8 otherwise, and Mime-Type is
\* application/json;charset=UTF-8 in both modes; the prepared request carries
\* these headers.
C34_PayloadConfiguration ==
  [][pc = "configure" =>
       /\ req.payload = None =>
            /\ headers' = headers
            /\ pc' = "send" => prepped'.data = <<>>
       /\ req.payload # None =>
            /\ pc' = "send" => prepped'.data = <<"json.dumps", req.payload>>
            /\ headers'["Content-Type"] =
                 IF req.mode = "PLAIN" THEN <<"text/plain;charset=UTF-8">>
                 ELSE <<"application/json;charset=UTF-8">>
            /\ headers'["Mime-Type"] = <<"application/json;charset=UTF-8">>
       /\ pc' = "send" => prepped'.headers = headers']_vars

\* a descriptor with a payload in mode PLAIN was prepared
C34_Witness ==
  /\ pc = "send" /\ req.payload = "payload" /\ req.mode = "PLAIN"
  /\ prepped.data = <<"json.dumps", "payload">>
  /\ prepped.headers["Content-Type"] = <<"text/plain;charset=UTF-8">>
  /\ prepped.headers["Mime-Type"] = <<"application/json;charset=UTF-8">>

\* an access of layer.name by a caller on a client that was not COMPLETED
\* raised TadoException before anything was sent
RefusedAccess(layer, name) ==
  (op = ApiOp(layer, name) /\ calls.status0 # COMPLETED) =>
    /\ outcome = "TadoException"
    /\ pc = "none"
    /\ callLog = <<>> /\ wire = EmptyObject /\ calls.posts = 0 /\ calls.authorize = 0

\* C35 as stated: on TadoBase and on the Tado wrapper every public name
\* other than device_activation, device_activation_status,
\* device_verification_url and from_http raises TadoException and sends no
\* request while the client is not COMPLETED.
C35_OnlyFourNamesOpen ==
  \A layer \in ApiLayers :
    \A name \in ApiNames \ {"device_activation", "device_activation_status",
                            "device_verification_url", "from_http"} :
      RefusedAccess(layer, name)

\* C35, amended: the same for every public name other than those four and
\* other than get_refresh_token of the Tado wrapper, which returns the
\* refresh token of the client (None when there is none) in every status.
C35_GuardedNames ==
  /\ \A layer \in ApiLayers :
       \A name \in ApiNames \ {"device_activation", "device_activation_status",
                               "device_verification_url", "from_http"} :
         ~(layer = "Tado" /\ name = "get_refresh_token") => RefusedAccess(layer, name)
  /\ (op = ApiOp("Tado", "get_refresh_token")) =>
       outcome = "ok" /\ result = [value |-> token_refresh] /\ callLog = <<>>

\* get_me was refused on a TadoBase object whose client is PENDING
C35_Witness ==
  /\ op = ApiOp("TadoBase", "get_me") /\ calls.status0 = PENDING
  /\ outcome = "TadoException" /\ pc = "none" /\ callLog = <<>>

\* a step in which an attempted refresh fails: the POST went out and was not
\* answered 200 (another status, forced or not, or a connection error)
RefreshFailedStep ==
  pc = "refresh_token" /\ calls'.posts = calls.posts + 1 /\ calls'.answer # 200

\* what a failed refresh leaves alone, and the one thing it replaces
RefreshFailureFrame ==
  RefreshFailedStep =>
    /\ UNCHANGED <<token_refresh, refresh_at, headers, file, id, x_api,
                   device_activation_status>>
    /\ recreated' = recreated + 1

\* the instance is idle after a refresh that failed inside request()
FailedInRequest ==
  /\ op = "request" /\ pc = "none"
  /\ callLog # <<>> /\ LastOf(callLog) = "refresh_raise" /\ calls.answer # 200

\* the instance is idle after the forced refresh of __init__ returned False
FailedForced ==
  op = "ctor" /\ pc = "none" /\ calls.forced = 1 /\ calls.posts = 1 /\ calls.answer # 200

\* C36 as stated: a failed refresh (non-200 with force, non-200 without
\* force, connection error) changes none of refresh token, refresh_at,
\* Authorization header, token file, home_id, is_new_generation and activation
\* status and replaces the session; the next request() attempts the refresh
\* again, after each of these failures.
C36_FailureThenRefreshAgain ==
  /\ [][RefreshFailureFrame]_vars
  /\ [][((FailedInRequest \/ FailedForced) /\ pc' = "request") => refresh_at' < now']_vars
  /\ [][(pc = "request" /\ refresh_at < now) => pc' = "refresh_token"]_vars

\* C36, amended: the same frame for every failed refresh; after a refresh
\* that failed inside request() the next request() attempts the refresh again.
C36_RefreshFailureFrame ==
  /\ [][RefreshFailureFrame]_vars
  /\ [][(FailedInRequest /\ pc' = "request") => refresh_at' < now']_vars
  /\ [][(pc = "request" /\ refresh_at < now) => pc' = "refresh_token"]_vars

\* a request() whose refresh was rejected: the token obtained earlier, its
\* header and refresh_at are still there, the session was replaced once
C36_Witness ==
  /\ op = "request" /\ pc = "none" /\ outcome = "TadoWrongCredentialsException"
  /\ LastOf(callLog) = "refresh_raise" /\ calls.posts = 1 /\ calls.answer # 200
  /\ recreated = 1
  /\ token_refresh = latest.refresh /\ token_refresh # None
  /\ headers["Authorization"] = Bearer(latest.access)
  /\ refresh_at = RefreshAt(latest.at, latest.expires_in) /\ refresh_at < now

\* C37: device_activation() called on a client that is COMPLETED returns
\* without error, issues no poll of the token endpoint (it does not even wait
\* for one), and changes none of the status, the credentials, home_id and
\* is_new_generation.
C37_ActivationOnCompleted ==
  /\ []((op = "activate" /\ calls.status0 = COMPLETED) =>
          /\ pollLog = <<>>
          /\ pc = "none" => outcome = "ok")
  /\ [][(op' = "activate" /\ calls'.status0 = COMPLETED) =>
          UNCHANGED <<device_activation_status, token_refresh, refresh_at, headers, id,
                      x_api>>]_vars

\* the value of a header in a map, << >> when the map does not have it
HeaderOf(h, k) == IF k \in DOMAIN h THEN h[k] ELSE <<>>

\* C38: the Content-Type and Mime-Type that request() configures for a
\* payload are written into the header map of the instance and stay there:
\* no other step changes them, a request without payload is prepared and sent
\* with the map as the most recent request with a payload left it, and
\* configuring a request never changes Referer or Authorization.
C38_PayloadHeadersPersist ==
  /\ [][(pc = "configure" /\ req.payload # None) =>
          /\ HeaderOf(headers', "Content-Type") =
               IF req.mode = "PLAIN" THEN <<"text/plain;charset=UTF-8">>
               ELSE <<"application/json;charset=UTF-8">>
          /\ HeaderOf(headers', "Mime-Type") = <<"application/json;charset=UTF-8">>]_vars
  /\ [][~(pc = "configure" /\ req.payload # None) =>
          /\ HeaderOf(headers', "Content-Type") = HeaderOf(headers, "Content-Type")
          /\ HeaderOf(headers', "Mime-Type") = HeaderOf(headers, "Mime-Type")]_vars
  /\ [][(pc = "configure" /\ pc' = "send") => prepped'.headers = headers']_vars
  /\ [][pc = "send" => wire' = prepped.headers]_vars
  /\ [][pc = "configure" =>
          /\ HeaderOf(headers', "Referer") = HeaderOf(headers, "Referer")
          /\ HeaderOf(headers', "Authorization") = HeaderOf(headers, "Authorization")]_vars

\* a GET without payload went out with the text/plain Content-Type that an
\* earlier request with a PLAIN payload had configured
C38_Witness ==
  /\ op = "request" /\ pc = "none" /\ outcome = "ok"
  /\ req.payload = None /\ req.action = "GET"
  /\ HeaderOf(wire, "Content-Type") = <<"text/plain;charset=UTF-8">>
  /\ HeaderOf(wire, "Mime-Type") = <<"application/json;charset=UTF-8">>
  /\ HeaderOf(wire, "Referer") = RefererValue
  /\ HeaderOf(wire, "Authorization") = Bearer(latest.access)

\* C39: all send attempts of one request() call transmit one prepared
\* request: it is prepared once, from the descriptor and the header map as
\* they were before the first attempt (method, URL, headers with the bearer
\* token, body); an attempt changes neither the prepared request nor the
\* header map nor the tokens and makes no refresh; after the preparation the
\* call only sends; and a connection error is retried while retries are left,
\* from a budget of _DEFAULT_RETRIES, whatever the verb.
C39_SamePreparedRequest ==
  /\ [][pc = "send" =>
          /\ prepped' = prepped
          /\ wire' = prepped.headers
          /\ UNCHANGED <<headers, token_refresh, refresh_at, latest>>
          /\ calls'.posts = calls.posts]_vars
  /\ [](pc = "send" =>
          /\ prepped.method = RequestAction(req)
          /\ prepped.url = ConfigureUrl(req, id)
          /\ prepped.data = ConfigurePayloadData(req)
          /\ prepped.headers = headers
          /\ "Authorization" \in DOMAIN prepped.headers =>
               prepped.headers["Authorization"] = Bearer(latest.access)
          /\ Count(callLog, {"build"}) = 1
          /\ \A i \in 1..Len(callLog) : \A j \in 1..Len(callLog) :
               (callLog[i] = "build" /\ j > i) => callLog[j] \in SendEvents
          /\ retries = DEFAULT_RETRIES - Count(callLog, {"connection_error"}))
  /\ [][(pc = "send" /\ Len(callLog') > Len(callLog)
           /\ LastOf(callLog') = "connection_error") =>
          IF retries > 0
            THEN pc' = "send" /\ retries' = retries - 1
            ELSE pc' \in {"none", "dead"} /\ outcome' = "TadoException"]_vars

\* a POST (verb SET) was answered at its third attempt, after a refresh that
\* preceded the preparation; the three attempts carried the prepared headers
C39_Witness ==
  /\ op = "request" /\ pc = "none" /\ outcome = "ok"
  /\ prepped.method = "POST" /\ prepped.data = <<"json.dumps", "payload">>
  /\ callLog = <<"stale", "refresh_ok", "build", "connection_error", "connection_error",
                 "response">>
  /\ wire = prepped.headers
  /\ HeaderOf(wire, "Authorization") = Bearer(latest.access)

====
